---------------------------- MODULE Spec2Model ----------------------------
(***************************************************************************)
(* A model of TaggyTime's calendar-time arithmetic: the bounded integer    *)
(* refinement (util_typs/refinement.rs), the zone offset                   *)
(* (time/timezone.rs), years, months and weekdays (time/year.rs,           *)
(* time/month.rs, time/week.rs), the Date <-> MinInstant conversions       *)
(* (time/date.rs, time/mod.rs) and MinInterval arithmetic (time/mod.rs).   *)
(*                                                                         *)
(* Machine integers.  TLC's integers are 32-bit signed, so neither         *)
(* u32::MAX nor i64::MAX is a TLC number.  A u32 is held as a number in    *)
(* 0..U32_MAX and an i64 as a number up to I64_MAX, where U32_MAX and       *)
(* I64_MAX stand for the type's largest value and are written as the       *)
(* largest TLC integer.  Every value the model uses lies within a small    *)
(* distance of 0 or of the type's largest value, and every operation       *)
(* moves a value by a small amount, so order, checked arithmetic and       *)
(* wrap-around behave on these numbers exactly as they do on the machine   *)
(* integers they stand for.  Unchecked u32 arithmetic (+, -, +=, -=)       *)
(* panics when the build has overflow checks (debug) and wraps when it     *)
(* has not (release); the model keeps both outcomes.                       *)
(***************************************************************************)
EXTENDS Integers, Sequences, FiniteSets, TLC

VARIABLES
  \* ---- Date <-> MinInstant conversions (time/date.rs, time/mod.rs)
  mi,        \* a MinInstant: [raw, offset]
  date,      \* a Date: [yr, mon, day, hr, min, tz]
  origin,    \* the value a chain of conversions started from
  chain,     \* the conversions applied to origin so far
  out,       \* the result of the last query (weekday, num_days, an error)
  \* ---- RangedI64<MIN, MAX> (util_typs/refinement.rs)
  rv,        \* a RangedI64 value: [min, max, raw], min and max its type
  res,       \* the last RangedI64 call: [op, recv, arg, r]
  \* ---- ZoneOffset (time/timezone.rs)
  zarg,      \* the argument of a ZoneOffset constructor: an i64 or a string
  zres,      \* what the constructor returned
  \* ---- the build: TRUE when integer overflow panics (a debug build), FALSE
  \* when it wraps (a release build)
  overflow_checks,
  \* ---- MinInstant and MinInterval (time/mod.rs)
  inst_a,    \* a MinInstant
  inst_b,    \* a second MinInstant
  inst_res,  \* the last MinInstant call: its operands and what it gave
  miv_a,     \* a MinInterval
  miv_b,     \* a second MinInterval
  miv_res,   \* the last MinInterval call
  \* ---- Recurrence and RecIter (calendar/cal_event.rs)
  rec_init,  \* the Recurrence as it was created
  rec_iter,  \* RecIter.rec: the Recurrence the iterator holds, if any
  rec_out,   \* the MinIntervals the iterator has yielded so far
  rec_pc,    \* what is being run on rec_init, and whether it has returned
  rec_win,   \* miv, the window of overlap()
  rec_ret,   \* ret of overlap(): the running and final sum
  rec_now,   \* the instant the clock gives to ended()
  rec_ended, \* what ended() returned
  \* ---- IcsLexer (ics_parser/lexer.rs)
  lex_input, \* content: the text the lexer was made from
  lex_stream, \* stream: the chars not yet taken
  lex_out,   \* the calls of token() so far: stream before, result, stream after
  \* ---- PeekBuffer (ics_parser/peekbuf.rs), its lexer being lex_stream
  pb_buf,    \* buf: the results peeked and not yet taken
  pb_lexed,  \* every result the lexer has given the buffer, in order
  pb_taken,  \* every result token() has returned, in order
  pb_prev,   \* the call before the last
  pb_last,   \* the last call: peek(n) or token(), and what it returned
  \* ---- ICSParser (ics_parser/ics_syntax.rs), its buffer being pb_buf
  par_pc,    \* where vevent is: before its loop, in it, or returned
  par_locals, \* dtstart, dtend, summary and recur of vevent
  par_ret,   \* what vevent returned
  par_str,   \* ret of string_until while vevent reads a summary
  par_acc,   \* freq, content, interval, count and until of rrules
  par_rec,   \* what Recurrence::from_ve gave
  par_vevents, \* vevents of parse
  par_cal,   \* what parse returned
  par_next,  \* the text of the parse that is to follow, if any
  par_first, \* what the parse of the text before it returned
  \* ---- NameMap<Vec<Event>> (calendar/mod.rs)
  nm_map,    \* contents: the HashMap, a function on the names it holds
  nm_res     \* the last call on the map: its arguments and what it gave

dateVars == <<mi, date, origin, chain, out>>
rangedVars == <<rv, res>>
zoneVars == <<zarg, zres>>
instVars == <<overflow_checks, inst_a, inst_b, inst_res, miv_a, miv_b, miv_res>>
coreVars == <<dateVars, rangedVars, zoneVars, instVars>>
recVars ==
  <<rec_init, rec_iter, rec_out, rec_pc, rec_win, rec_ret, rec_now, rec_ended>>
pbVars == <<pb_buf, pb_lexed, pb_taken, pb_prev, pb_last>>
calVars == <<par_vevents, par_cal, par_next, par_first>>
parVars == <<par_pc, par_locals, par_ret, par_str, par_acc, par_rec, calVars>>
icsVars == <<lex_input, lex_stream, lex_out, pbVars, parVars>>
nameVars == <<nm_map, nm_res>>
restVars == <<recVars, icsVars, nameVars>>
vars == <<coreVars, restVars>>

-----------------------------------------------------------------------------
(* Option<T> and Result<T, E> *)

None == [some |-> FALSE]
Some(x) == [some |-> TRUE, val |-> x]
Ok(x) == [ok |-> TRUE, val |-> x]
Err(e) == [ok |-> FALSE, err |-> e]

-----------------------------------------------------------------------------
(* Machine integers *)

\* u32::MAX (see the note on machine integers above)
U32_MAX == 2147483647
\* u16::MAX
U16_MAX == 65535

\* i64::MAX (see the note on machine integers above)
I64_MAX == 2147483647

\* i64::checked_add, of a b >= 0
i64_checked_add(a, b) == IF a > I64_MAX - b THEN None ELSE Some(a + b)

\* u32::checked_add
u32_checked_add(a, b) == IF a > U32_MAX - b THEN None ELSE Some(a + b)

\* u32 +: the sum, and whether it overflowed (panic in debug, wrap in release)
u32_add(a, b) ==
  IF a > U32_MAX - b
    THEN [val |-> (a - (U32_MAX - b)) - 1, overflow |-> TRUE]
    ELSE [val |-> a + b, overflow |-> FALSE]

\* u32 -: the difference, and whether it underflowed
u32_sub(a, b) ==
  IF a < b
    THEN [val |-> ((U32_MAX - b) + a) + 1, overflow |-> TRUE]
    ELSE [val |-> a - b, overflow |-> FALSE]

-----------------------------------------------------------------------------
(* time/fact.rs *)

MIN_IN_HR == 60
HR_IN_DAY == 24
MIN_IN_DAY == MIN_IN_HR * HR_IN_DAY
UNIX_EPOCH_YR_RAW == 1970

-----------------------------------------------------------------------------
(* time/year.rs: a CeYear is its u16, a UnixYear is its u16 *)

UNIX_YEAR_MAX == U16_MAX - UNIX_EPOCH_YR_RAW
CE_YEAR_MIN == 0 + UNIX_EPOCH_YR_RAW

UnixYear_new(n) ==
  IF n > UNIX_YEAR_MAX THEN Err("UnixYearConstructorOverflow") ELSE Ok(n)

CeYear_new(n) ==
  IF n < CE_YEAR_MIN THEN Err("CeYearConstructorUnderflow") ELSE Ok(n)

\* UnixYear::to_ce, CeYear::to_unix
UnixYear_to_ce(u) == u + UNIX_EPOCH_YR_RAW
CeYear_to_unix(c) == c - UNIX_EPOCH_YR_RAW

\* Year::get_year_length, of a CeYear
get_year_length(n) ==
  IF (n % 400 = 0) \/ (n % 4 = 0 /\ n % 100 # 0) THEN "Leap" ELSE "Common"

days_in_year(n) == IF get_year_length(n) = "Leap" THEN 366 ELSE 365

\* Year::num_min, of a CeYear
Year_num_min(n) == days_in_year(n) * MIN_IN_DAY

UnixYear_next(u) ==
  IF u + 1 > U16_MAX THEN None
  ELSE IF UnixYear_new(u + 1).ok THEN Some(u + 1) ELSE None

UnixYear_prev(u) == IF u < 1 THEN None ELSE Some(u - 1)

CeYear_next(c) ==
  IF c + 1 > U16_MAX THEN None
  ELSE IF CeYear_new(c + 1).ok THEN Some(c + 1) ELSE None

\* UnixYear::num_min_since_epoch: minutes from the epoch to the year's start
\* the Some(prev_yr) arm: r is prev_yr.num_min_since_epoch(), `?` passes its
\* error on, s is the checked_add
add_prev_year_checked(s) ==
  IF s.some THEN Ok(s.val) ELSE Err("YrToMinInstantOverflow")

add_prev_year(r, prev_yr) ==
  IF ~r.ok THEN r
  ELSE add_prev_year_checked(
         u32_checked_add(r.val, Year_num_min(UnixYear_to_ce(prev_yr))))

RECURSIVE UnixYear_num_min_since_epoch(_)
UnixYear_num_min_since_epoch(u) ==
  IF ~UnixYear_prev(u).some THEN Ok(0)
  ELSE add_prev_year(UnixYear_num_min_since_epoch(UnixYear_prev(u).val),
                     UnixYear_prev(u).val)

-----------------------------------------------------------------------------
(* time/month.rs *)

MONTH_LIST ==
  <<"Jan", "Feb", "Mar", "Apr", "May", "Jun",
    "Jul", "Aug", "Sep", "Oct", "Nov", "Dec">>

Month == {MONTH_LIST[i] : i \in 1..12}

\* `month as usize`: the discriminant, Jan = 0
Month_as_usize(m) == (CHOOSE i \in 1..12 : MONTH_LIST[i] = m) - 1

Month_next(m) ==
  IF Month_as_usize(m) + 1 < 12 THEN Some(MONTH_LIST[Month_as_usize(m) + 2])
  ELSE None

Month_prev(m) ==
  IF Month_as_usize(m) < 1 THEN None ELSE Some(MONTH_LIST[Month_as_usize(m)])

\* Month::num_days(&self, y): the test is on Jan
Month_num_days(m, y) ==
  IF m = "Jan"
    THEN (IF get_year_length(y) = "Leap" THEN 29 ELSE 28)
  ELSE IF m \in {"Apr", "Jun", "Sep", "Nov"} THEN 30
  ELSE 31

Month_num_min(m, y) == Month_num_days(m, y) * MIN_IN_DAY

\* Month::num_min_since_new_year; the expect() on checked_add is a panic
add_prev_month_expect(s) == IF s.some THEN Ok(s.val) ELSE Err("panic")

add_prev_month(r, prev_mon, y) ==
  IF ~r.ok THEN r
  ELSE add_prev_month_expect(u32_checked_add(r.val, Month_num_min(prev_mon, y)))

RECURSIVE Month_num_min_since_new_year(_, _)
Month_num_min_since_new_year(m, y) ==
  IF ~Month_prev(m).some THEN Ok(0)
  ELSE add_prev_month(Month_num_min_since_new_year(Month_prev(m).val, y),
                      Month_prev(m).val, y)

-----------------------------------------------------------------------------
(* time/timezone.rs: a ZoneOffset is its i64 *)

UTC_LB == -720
UTC_UB == 840

\* new with the upper bound left out
ZoneOffset_new_no_upper_bound(n) ==
  IF n < UTC_LB
    THEN Err("Timezone offset must be a value between -720min and +840min")
    ELSE Ok(n)

ZoneOffset_new(n) ==
  IF n < UTC_LB \/ n > UTC_UB
    THEN Err("Timezone offset must be a value between -720min and +840min")
    ELSE Ok(n)

ZoneOffset_utc == 0

\* u32::from_str on a sequence of characters: an optional leading "+", then
\* at least one decimal digit; the value must fit a u32.
DIGITS == <<"0", "1", "2", "3", "4", "5", "6", "7", "8", "9">>

digit_val(c) == (CHOOSE i \in 1..Len(DIGITS) : DIGITS[i] = c) - 1

is_digit(c) == \E i \in 1..Len(DIGITS) : DIGITS[i] = c

u32_push_digit(acc, c) ==
  IF ~acc.ok THEN acc
  ELSE IF ~is_digit(c) THEN Err("InvalidDigit")
  ELSE IF acc.val > (U32_MAX - digit_val(c)) \div 10 THEN Err("PosOverflow")
  ELSE Ok(acc.val * 10 + digit_val(c))

RECURSIVE u32_from_digits(_, _)
u32_from_digits(s, n) ==
  IF n = 0 THEN Ok(0) ELSE u32_push_digit(u32_from_digits(s, n - 1), s[n])

u32_from_str(s) ==
  IF s = <<>> THEN Err("Empty")
  ELSE IF s[1] \in {"+", "-"} /\ Len(s) = 1 THEN Err("InvalidDigit")
  ELSE IF s[1] = "+" THEN u32_from_digits(Tail(s), Len(s) - 1)
  ELSE u32_from_digits(s, Len(s))

\* timezone::parse_u32: str::parse::<u32> with the error mapped
parse_u32(s) ==
  IF u32_from_str(s).ok THEN u32_from_str(s) ELSE Err("TimeZoneParseErr")

\* str::split_once(':')
has_colon(s) == \E i \in 1..Len(s) : s[i] = ":"

first_colon(s) == CHOOSE i \in 1..Len(s) : s[i] = ":" /\ \A j \in 1..(i - 1) : s[j] # ":"

split_once_colon(s) ==
  IF has_colon(s)
    THEN Some(<<SubSeq(s, 1, first_colon(s) - 1),
                SubSeq(s, first_colon(s) + 1, Len(s))>>)
    ELSE None

\* (hr_offset, min_offset) of the text after the sign
zone_hr_min(s) ==
  IF split_once_colon(s).some
    THEN <<parse_u32(split_once_colon(s).val[1]),
           parse_u32(split_once_colon(s).val[2])>>
    ELSE <<parse_u32(s), Ok(0)>>

\* match ZoneOffset::new(total_offset) { Ok(z) => Ok(z), _ => bad }
zone_new_or_bad(total_offset) ==
  IF ZoneOffset_new(total_offset).ok THEN ZoneOffset_new(total_offset)
  ELSE Err("TimeZoneParseErr")

\* MIN_IN_HR * hr_offset + min_offset in u32, then the sign, then new.  When
\* the u32 arithmetic overflows, a build with overflow checks panics and a
\* build without them goes on with the wrapped u32, here the parameter w
\* (oc: the build has overflow checks).
zone_total(positive, hr, mn, oc, w) ==
  IF ~hr.ok THEN hr
  ELSE IF ~mn.ok THEN mn
  ELSE IF hr.val > (U32_MAX - mn.val) \div MIN_IN_HR
    THEN IF oc THEN Err("panic")
         ELSE zone_new_or_bad(IF positive THEN w ELSE 0 - w)
  ELSE zone_new_or_bad(IF positive THEN MIN_IN_HR * hr.val + mn.val
                       ELSE 0 - (MIN_IN_HR * hr.val + mn.val))

\* <ZoneOffset as FromStr>::from_str
ZoneOffset_from_str(s, oc, w) ==
  IF s # <<>> /\ s[1] \in {"+", "-"}
    THEN zone_total(s[1] = "+", zone_hr_min(Tail(s))[1],
                    zone_hr_min(Tail(s))[2], oc, w)
    ELSE Err("TimeZoneParseErr")

-----------------------------------------------------------------------------
(* util_typs/refinement.rs: a RangedI64<MIN, MAX> is [min, max, raw] *)

RangedI64(MIN, MAX, n) == [min |-> MIN, max |-> MAX, raw |-> n]

RefinementError(k, a, b, c) == [kind |-> k, a |-> a, b |-> b, c |-> c]

RangedI64_new(MIN, MAX, n) ==
  IF n < MIN THEN Err(RefinementError("RangedI64Underflow", n, MIN, MAX))
  ELSE IF n > MAX THEN Err(RefinementError("RangedI64Overflow", n, MIN, MAX))
  ELSE Ok(RangedI64(MIN, MAX, n))

\* num is [fits, n]: fits says whether num.try_into() gives an i64
RangedI64_try_new(MIN, MAX, num) ==
  IF num.fits THEN RangedI64_new(MIN, MAX, num.n)
  ELSE Err(RefinementError("FailedConversionToI64", num.n, MIN, MAX))

\* increment with the range check left out
increment_no_range_check(self) ==
  IF i64_checked_add(self.raw, 1).some
    THEN Ok(RangedI64(self.min, self.max, i64_checked_add(self.raw, 1).val))
    ELSE Err(RefinementError("RangedI64ArithmeticError", self.raw, "+", 1))

RangedI64_increment(self) ==
  IF i64_checked_add(self.raw, 1).some
    THEN RangedI64_new(self.min, self.max, i64_checked_add(self.raw, 1).val)
    ELSE Err(RefinementError("RangedI64ArithmeticError", self.raw, "+", 1))

-----------------------------------------------------------------------------
(* time/mod.rs: MinInstant *)

MINUTE_UPPERBOUND == U32_MAX - UTC_UB
MINUTE_LOWERBOUND == 0 - UTC_LB

MinInstant(r, z) == [raw |-> r, offset |-> z]

\* u32_safe_sum: None if the running sum overflows
RECURSIVE u32_safe_sum_from(_, _, _)
u32_safe_sum_from(numbers, i, ret) ==
  IF i > Len(numbers) THEN Some(ret)
  ELSE IF u32_checked_add(ret, numbers[i]).some
    THEN u32_safe_sum_from(numbers, i + 1, ret + numbers[i])
    ELSE None

u32_safe_sum(numbers) == u32_safe_sum_from(numbers, 1, 0)

\* The loop of MinInstant::decomp_yr_min: strip whole years from t.
\* The expect() on UnixYear::next is a panic.
RECURSIVE decomp_yr_min_loop(_, _)
decomp_yr_min_loop(curr_yr, t) ==
  IF t >= Year_num_min(UnixYear_to_ce(curr_yr))
    THEN IF UnixYear_next(curr_yr).some
           THEN decomp_yr_min_loop(UnixYear_next(curr_yr).val,
                                   t - Year_num_min(UnixYear_to_ce(curr_yr)))
           ELSE Err("panic")
    ELSE Ok([yr |-> curr_yr, t |-> t])

decomp_yr_min(self) == decomp_yr_min_loop(0, self.raw)

-----------------------------------------------------------------------------
(* time/date.rs: Date *)

\* The loop of Date::from_min_instant: strip whole months from t.
\* The expect("Month Overflow") is a panic.
RECURSIVE strip_month_loop(_, _, _)
strip_month_loop(curr_month, t, curr_year) ==
  IF t >= Month_num_min(curr_month, curr_year)
    THEN IF Month_next(curr_month).some
           THEN strip_month_loop(Month_next(curr_month).val,
                                 t - Month_num_min(curr_month, curr_year),
                                 curr_year)
           ELSE Err("panic")
    ELSE Ok([mon |-> curr_month, t |-> t])

\* the Date built at the end of Date::from_min_instant
Date_of_remainder(curr_year, curr_month, t, tz) ==
  [yr  |-> UnixYear_to_ce(curr_year),
   mon |-> curr_month,
   day |-> 1 + (t \div MIN_IN_DAY),
   hr  |-> (t % MIN_IN_DAY) \div MIN_IN_HR,
   min |-> t % MIN_IN_HR,
   tz  |-> tz]

Date_after_months(curr_year, mt, tz) ==
  IF ~mt.ok THEN mt
  ELSE Ok(Date_of_remainder(curr_year, mt.val.mon, mt.val.t, tz))

Date_after_years(ym, tz) ==
  IF ~ym.ok THEN ym
  ELSE Date_after_months(
         ym.val.yr,
         strip_month_loop("Jan", ym.val.t, UnixYear_to_ce(ym.val.yr)),
         tz)

\* Date::from_min_instant(mi): Ok(date), or Err("panic") on an expect()
Date_from_min_instant(m) == Date_after_years(decomp_yr_min(m), m.offset)

\* Date::day_in_yr: day in year, starting from 1
RECURSIVE day_in_yr_loop(_, _, _)
day_in_yr_loop(ret, var_month, d) ==
  IF var_month # d.mon
    THEN IF Month_next(var_month).some
           THEN day_in_yr_loop(ret + Month_num_days(var_month, d.yr),
                               Month_next(var_month).val, d)
           ELSE Err("panic")
    ELSE Ok(ret)

day_in_yr(d) == day_in_yr_loop(d.day, "Jan", d)

\* MinInstant::from_date(&date): the instant keeps the date's offset
from_date_match(ret_opt, d) ==
  IF ret_opt.some THEN Ok(MinInstant(ret_opt.val, d.tz))
  ELSE Err("DateToMiOverflow")

\* from_date_sum with the day of the month not shifted to a 0-based index
from_date_sum_day_not_shifted(yrs_min, mons_min, d) ==
  IF ~yrs_min.ok THEN yrs_min
  ELSE IF ~mons_min.ok THEN mons_min
  ELSE from_date_match(
         u32_safe_sum(<<yrs_min.val, mons_min.val, d.day * MIN_IN_DAY,
                        d.hr * MIN_IN_HR, d.min>>),
         d)

\* yrs_min is num_min_since_epoch()? and mons_min is num_min_since_new_year
from_date_sum(yrs_min, mons_min, d) ==
  IF ~yrs_min.ok THEN yrs_min
  ELSE IF ~mons_min.ok THEN mons_min
  ELSE from_date_match(
         u32_safe_sum(<<yrs_min.val,
                        mons_min.val,
                        (d.day - 1) * MIN_IN_DAY,  \* days_min
                        d.hr * MIN_IN_HR,          \* hrs_min
                        d.min>>),                  \* min_min
         d)

MinInstant_from_date(d) ==
  from_date_sum(UnixYear_num_min_since_epoch(CeYear_to_unix(d.yr)),
                Month_num_min_since_new_year(d.mon, d.yr),
                d)

\* What a method that does unchecked u32 arithmetic gives: its value, whether
\* the arithmetic left 0..u32::MAX, and whether that was a panic (oc: the
\* build has overflow checks) or went on with the wrapped number.
Computed(v, o, oc) == [val |-> v, overflow |-> o, panic |-> o /\ oc]

Panicked(v) == [val |-> v, overflow |-> FALSE, panic |-> TRUE]

\* self.raw += diff as u32, or self.raw -= (-diff) as u32
adjust_raw(raw, diff) ==
  IF diff >= 0 THEN u32_add(raw, diff) ELSE u32_sub(raw, 0 - diff)

MinInstant_adjust_to_zone(self, tgt_offset, oc) ==
  Computed(MinInstant(adjust_raw(self.raw, tgt_offset - self.offset).val,
                      tgt_offset),
           adjust_raw(self.raw, tgt_offset - self.offset).overflow, oc)

MinInstant_normalize(self, oc) ==
  MinInstant_adjust_to_zone(self, ZoneOffset_utc, oc)

\* u32::cmp
u32_cmp(x, y) == IF x < y THEN "Less" ELSE IF x = y THEN "Equal" ELSE "Greater"

\* PartialEq::eq: both sides adjusted to utc, then the raw counts compared
MinInstant_eq(self, other, oc) ==
  Computed(MinInstant_normalize(self, oc).val.raw
             = MinInstant_normalize(other, oc).val.raw,
           MinInstant_normalize(self, oc).overflow
             \/ MinInstant_normalize(other, oc).overflow, oc)

\* PartialOrd::partial_cmp, and Ord::cmp which unwraps it
MinInstant_partial_cmp(self, other, oc) ==
  Computed(u32_cmp(MinInstant_normalize(self, oc).val.raw,
                   MinInstant_normalize(other, oc).val.raw),
           MinInstant_normalize(self, oc).overflow
             \/ MinInstant_normalize(other, oc).overflow, oc)

MinInstant_from_raw_utc(raw) ==
  IF raw > MINUTE_UPPERBOUND THEN Err("MinInstantConstructionOverflow")
  ELSE IF raw < MINUTE_LOWERBOUND THEN Err("MinInstantConstructionUnderflow")
  ELSE Ok(MinInstant(raw, ZoneOffset_utc))

\* MinInstant::now(tz), t the system clock in minutes
MinInstant_now(t, tz, oc) ==
  IF t > MINUTE_UPPERBOUND \/ t < MINUTE_LOWERBOUND
    THEN Panicked(MinInstant(0, ZoneOffset_utc))
    ELSE MinInstant_adjust_to_zone(MinInstant(t, ZoneOffset_utc), tz, oc)

MinInstant_advance(self, num_min) ==
  IF /\ u32_checked_add(self.raw, num_min).some
     /\ self.raw + num_min <= MINUTE_UPPERBOUND + self.offset
    THEN Ok(MinInstant(self.raw + num_min, self.offset))
    ELSE Err("MinInstantAdvanceOverflow")

\* ---- MinInterval

MinInterval_new(start, end) == [start |-> start, end |-> end]

MinInterval_from_now_till(end, t, oc) ==
  [val |-> MinInterval_new(MinInstant_now(t, end.offset, oc).val, end),
   overflow |-> MinInstant_now(t, end.offset, oc).overflow,
   panic |-> MinInstant_now(t, end.offset, oc).panic]

MinInterval_normalize(self, oc) ==
  Computed(MinInterval_new(MinInstant_normalize(self.start, oc).val,
                           MinInstant_normalize(self.end, oc).val),
           MinInstant_normalize(self.start, oc).overflow
             \/ MinInstant_normalize(self.end, oc).overflow, oc)

\* std::cmp::max and min over Ord::cmp
ord_max(v1, v2, oc) ==
  IF MinInstant_partial_cmp(v1, v2, oc).val = "Greater" THEN v1 ELSE v2

ord_min(v1, v2, oc) ==
  IF MinInstant_partial_cmp(v1, v2, oc).val = "Greater" THEN v2 ELSE v1

\* if lb >= ub { 0 } else { ub.raw - lb.raw }
overlap_of_bounds(lb, ub, oc) ==
  IF MinInstant_partial_cmp(lb, ub, oc).val \in {"Greater", "Equal"} THEN 0
  ELSE u32_sub(ub.raw, lb.raw).val

overlap_of_normalized(lhs, rhs, oc) ==
  Computed(overlap_of_bounds(ord_max(lhs.val.start, rhs.val.start, oc),
                             ord_min(lhs.val.end, rhs.val.end, oc), oc),
           lhs.overflow \/ rhs.overflow, oc)

MinInterval_overlap_duration(self, rhs, oc) ==
  overlap_of_normalized(MinInterval_normalize(self, oc),
                        MinInterval_normalize(rhs, oc), oc)

\* miv.end.raw - miv.start.raw of the normalized interval
num_min_of_normalized(miv) ==
  [val |-> u32_sub(miv.val.end.raw, miv.val.start.raw).val,
   overflow |-> miv.overflow
                  \/ u32_sub(miv.val.end.raw, miv.val.start.raw).overflow]

MinInterval_num_min(self, oc) ==
  Computed(num_min_of_normalized(MinInterval_normalize(self, oc)).val,
           num_min_of_normalized(MinInterval_normalize(self, oc)).overflow,
           oc)

-----------------------------------------------------------------------------
(* time/week.rs *)

WEEKDAY_LIST == <<"MO", "TU", "WE", "TH", "FR", "SA", "SU">>

\* `weekday as usize`: the discriminant, MO = 0
Weekday_as_usize(w) == (CHOOSE i \in 1..7 : WEEKDAY_LIST[i] = w) - 1

next_wrap(w) == WEEKDAY_LIST[((Weekday_as_usize(w) + 1) % 7) + 1]

thursday_plus(n) == WEEKDAY_LIST[((Weekday_as_usize("TH") + n) % 7) + 1]

\* impl From<Date> for Weekday: the days of the past years, then the day in
\* the year
RECURSIVE days_in_past_years_loop(_, _, _)
days_in_past_years_loop(past_year_iter, days_in_past_years, yr) ==
  IF past_year_iter # yr
    THEN IF CeYear_next(past_year_iter).some
           THEN days_in_past_years_loop(
                  CeYear_next(past_year_iter).val,
                  days_in_past_years + days_in_year(past_year_iter), yr)
           ELSE Err("panic")
    ELSE Ok(days_in_past_years)

\* total_days = days_in_past_years + value.day_in_yr() - 1
weekday_of_total(past, diy) ==
  IF ~past.ok THEN past
  ELSE IF ~diy.ok THEN diy
  ELSE Ok(thursday_plus((past.val + diy.val) - 1))

Weekday_from(d) ==
  weekday_of_total(days_in_past_years_loop(1970, 0, d.yr), day_in_yr(d))

-----------------------------------------------------------------------------
(* calendar/cal_event.rs: Pattern, Term, Recurrence, RecIter.              *)
(* A DateProperty made from a Vec<Weekday> is the set of those weekdays.   *)

\* advance with the end left where it was
advance_start_only(self, num_min) ==
  IF MinInstant_advance(self.start, num_min).ok
    THEN Ok(MinInterval_new(MinInstant_advance(self.start, num_min).val,
                            self.end))
    ELSE Err("MinInstantAdvanceOverflow")

\* MinInterval::advance: both ends advanced, an error if either overflows
MinInterval_advance(self, num_min) ==
  IF /\ MinInstant_advance(self.start, num_min).ok
     /\ MinInstant_advance(self.end, num_min).ok
    THEN Ok(MinInterval_new(MinInstant_advance(self.start, num_min).val,
                            MinInstant_advance(self.end, num_min).val))
    ELSE Err("MinInstantAdvanceOverflow")

\* DateProperty::always(): the filter |_| true, told apart from every set of
\* weekdays
DateProperty_always == {"always"}

\* DateProperty::check: true for always(); for DateProperty::from(Vec<Weekday>)
\* it is property_set.contains(&Weekday::from(d))
DateProperty_check(dp, d) ==
  \/ dp = DateProperty_always
  \/ Weekday_from(d).ok /\ Weekday_from(d).val \in dp

\* impl Mul for DateProperty: both filters hold
DateProperty_mul(self, rhs) ==
  CASE self = DateProperty_always -> rhs
    [] self # DateProperty_always /\ rhs = DateProperty_always -> self
    [] OTHER -> self \cap rhs

\* new_miv.start >= until
passes_until_inclusive(new_miv, until_opt, oc) ==
  /\ until_opt.some
  /\ MinInstant_partial_cmp(new_miv.start, until_opt.val, oc).val
       \in {"Greater", "Equal"}

\* new_miv.start > until
passes_until(new_miv, until_opt, oc) ==
  /\ until_opt.some
  /\ MinInstant_partial_cmp(new_miv.start, until_opt.val, oc).val = "Greater"

\* MinInterval::advance_until: the while loop over whole days, then the
\* check for a loop that was not entered.  Ok(None) when the start passed
\* until, Ok(Some(interval)) when the date property accepts the start date.
RECURSIVE advance_until_loop(_, _, _, _)
advance_until_loop(new_miv, dp, until_opt, oc) ==
  IF DateProperty_check(dp, Date_from_min_instant(new_miv.start).val)
    THEN IF passes_until(new_miv, until_opt, oc) THEN Ok(None)
         ELSE Ok(Some(new_miv))
  ELSE IF ~MinInterval_advance(new_miv, MIN_IN_DAY).ok
    THEN MinInterval_advance(new_miv, MIN_IN_DAY)
  ELSE IF passes_until(MinInterval_advance(new_miv, MIN_IN_DAY).val,
                       until_opt, oc)
    THEN Ok(None)
  ELSE advance_until_loop(MinInterval_advance(new_miv, MIN_IN_DAY).val,
                          dp, until_opt, oc)

MinInterval_advance_until(self, dp, until_opt, oc) ==
  advance_until_loop(self, dp, until_opt, oc)

\* MinInterval::from_dates(&(Date, Date)): from_date of both dates
MinInterval_from_dates(date_iv) ==
  IF MinInstant_from_date(date_iv[1]).ok /\ MinInstant_from_date(date_iv[2]).ok
    THEN Ok(MinInterval_new(MinInstant_from_date(date_iv[1]).val,
                            MinInstant_from_date(date_iv[2]).val))
    ELSE Err("DateToMiOverflow")

\* MinInterval::to_dates(tz): the dates of both ends in the zone tz
MinInterval_to_dates(self, tz, oc) ==
  <<Date_from_min_instant(
      MinInstant_adjust_to_zone(self.start, tz, oc).val).val,
    Date_from_min_instant(
      MinInstant_adjust_to_zone(self.end, tz, oc).val).val>>

Once == [kind |-> "Once", dp |-> {}, iv |-> 1, term |-> [kind |-> "Never"]]

Many(dp, iv, term) == [kind |-> "Many", dp |-> dp, iv |-> iv, term |-> term]

Count(n) == [kind |-> "Count", n |-> n]

Until(u) == [kind |-> "Until", until |-> u]

Never == [kind |-> "Never"]

OneOrMore(n) == RangedI64_new(1, I64_MAX, n)

\* Recurrence::new
Recurrence_new(event_miv, tz, patt) ==
  [date_iv |-> event_miv, tz |-> tz, occurrence_count |-> OneOrMore(1).val,
   patt |-> patt]

\* what next() gives: a panic (an expect or unwrap failed), None, or Some
NextPanic == [panic |-> TRUE, some |-> FALSE]

NextNone == [panic |-> FALSE, some |-> FALSE]

NextSome(x) == [panic |-> FALSE, some |-> TRUE, val |-> x]

\* tmr: from_dates(&self.date_iv).expect(..).advance_unwrap(MIN_IN_DAY)
Recurrence_tmr(self) ==
  IF MinInterval_from_dates(self.date_iv).ok
    THEN MinInterval_advance(MinInterval_from_dates(self.date_iv).val,
                             MIN_IN_DAY)
    ELSE MinInterval_from_dates(self.date_iv)

\* Some(Recurrence { date_iv: event_miv.to_dates(self.tz), .. })
next_of_event_miv(self, event_miv, oc) ==
  IF ~RangedI64_increment(self.occurrence_count).ok THEN NextPanic
  ELSE NextSome([date_iv |-> MinInterval_to_dates(event_miv, self.tz, oc),
                 tz |-> self.tz,
                 occurrence_count |->
                   RangedI64_increment(self.occurrence_count).val,
                 patt |-> self.patt])

\* advance_until(..).expect("Unreachable: no until")
next_expect(self, found, oc) ==
  IF ~found.ok \/ ~found.val.some THEN NextPanic
  ELSE next_of_event_miv(self, found.val.val, oc)

\* advance_until(.., Some(until))?
next_try(self, found, oc) ==
  IF ~found.ok \/ ~found.val.some THEN NextNone
  ELSE next_of_event_miv(self, found.val.val, oc)

\* the term of Until, as the instant advance_until compares with
until_instant(term) == MinInstant_from_date(term.until).val

\* next with the test of the occurrence count left out
next_without_count_test(self, oc) ==
  IF ~Recurrence_tmr(self).ok THEN NextPanic
  ELSE IF self.patt.kind = "Once" THEN NextNone
  ELSE IF self.patt.term.kind = "Until"
    THEN next_try(self,
           MinInterval_advance_until(Recurrence_tmr(self).val, self.patt.dp,
             Some(until_instant(self.patt.term)), oc), oc)
  ELSE next_expect(self,
         MinInterval_advance_until(Recurrence_tmr(self).val, self.patt.dp,
                                   None, oc), oc)

\* next that takes every second match when the interval is above one
next_taking_every_second(first, oc) ==
  IF first.some /\ first.val.patt.iv.raw > 1
    THEN next_without_count_test(first.val, oc)
  ELSE first

Recurrence_next_by_interval(self, oc) ==
  next_taking_every_second(next_without_count_test(self, oc), oc)

\* Recurrence::next
Recurrence_next(self, oc) ==
  IF ~Recurrence_tmr(self).ok THEN NextPanic
  ELSE IF self.patt.kind = "Once" THEN NextNone
  ELSE IF self.patt.term.kind = "Count"
    THEN IF self.occurrence_count.raw >= self.patt.term.n.raw THEN NextNone
         ELSE next_expect(self,
                MinInterval_advance_until(Recurrence_tmr(self).val,
                                          self.patt.dp, None, oc), oc)
  ELSE IF self.patt.term.kind = "Until"
    THEN next_try(self,
           MinInterval_advance_until(Recurrence_tmr(self).val, self.patt.dp,
             Some(until_instant(self.patt.term)), oc), oc)
  ELSE next_expect(self,
         MinInterval_advance_until(Recurrence_tmr(self).val, self.patt.dp,
                                   None, oc), oc)

\* rec_miv.end <= miv.start: this occurrence is skipped
overlap_skips(rec_miv, miv, oc) ==
  MinInstant_partial_cmp(rec_miv.end, miv.start, oc).val \in {"Less", "Equal"}

\* rec_miv.end >= miv.end
overlap_breaks_on_end(rec_miv, miv, oc) ==
  MinInstant_partial_cmp(rec_miv.end, miv.end, oc).val
    \in {"Greater", "Equal"}

\* rec_miv.start >= miv.end: the loop is left
overlap_breaks(rec_miv, miv, oc) ==
  MinInstant_partial_cmp(rec_miv.start, miv.end, oc).val
    \in {"Greater", "Equal"}

\* ret.checked_add(rec_miv.overlap_duration(miv)).expect(..)
overlap_add(ret, rec_miv, miv, oc) ==
  IF MinInterval_overlap_duration(rec_miv, miv, oc).panic THEN None
  ELSE u32_checked_add(ret, MinInterval_overlap_duration(rec_miv, miv, oc).val)

\* MinInstant::now() of ended(), t the system clock in minutes
ended_now(t) == MinInstant_from_raw_utc(t).val

\* what ended() gives: a panic, or the bool
EndedPanic == [panic |-> TRUE, val |-> FALSE]

Ended(b) == [panic |-> FALSE, val |-> b]

\* miv.end > now
ends_after(miv, now, oc) ==
  MinInstant_partial_cmp(miv.end, now, oc).val = "Greater"

\* miv.end >= MinInstant::now()
ends_at_or_after(miv, now, oc) ==
  MinInstant_partial_cmp(miv.end, now, oc).val \in {"Greater", "Equal"}

\* for miv in self.clone() { if miv.end >= now { return false } } true
\* (RecIter::next calls next() on the Recurrence it holds before it yields)
RECURSIVE ended_loop(_, _, _)
ended_loop(rec, now, oc) ==
  IF ~rec.some THEN Ended(TRUE)
  ELSE IF ~MinInterval_from_dates(rec.val.date_iv).ok THEN EndedPanic
  ELSE IF Recurrence_next(rec.val, oc).panic THEN EndedPanic
  ELSE IF ends_at_or_after(MinInterval_from_dates(rec.val.date_iv).val,
                           now, oc)
    THEN Ended(FALSE)
  ELSE ended_loop(Recurrence_next(rec.val, oc), now, oc)

\* Recurrence::ended
Recurrence_ended(self, now, oc) ==
  IF self.patt.kind = "Once"
    THEN IF ~MinInstant_from_date(self.date_iv[2]).ok THEN EndedPanic
         ELSE Ended(MinInstant_partial_cmp(
                      MinInstant_from_date(self.date_iv[2]).val, now, oc).val
                    = "Less")
  ELSE IF self.patt.term.kind = "Never" THEN Ended(FALSE)
  ELSE ended_loop(NextSome(self), now, oc)

-----------------------------------------------------------------------------
(* ics_parser/lexer.rs: a char is a string of one character, a text and    *)
(* the stream of the lexer a sequence of chars.                            *)

\* 'A'..='Z' and 'a'..='z'
ASCII_UPPER ==
  {"A", "B", "C", "D", "E", "F", "G", "H", "I", "J", "K", "L", "M", "N",
   "O", "P", "Q", "R", "S", "T", "U", "V", "W", "X", "Y", "Z"}

ASCII_LOWER ==
  {"a", "b", "c", "d", "e", "f", "g", "h", "i", "j", "k", "l", "m", "n",
   "o", "p", "q", "r", "s", "t", "u", "v", "w", "x", "y", "z"}

\* a letter outside ascii: alphabetic, but not in 'A'..='Z' | 'a'..='z'
E_ACUTE == "é"

\* char::is_alphabetic
is_alphabetic(c) == c \in ASCII_UPPER \cup ASCII_LOWER \cup {E_ACUTE}

\* char::is_whitespace
is_whitespace(c) == c \in {" ", "\t", "\n", "\r"}

\* char::is_digit(10)
is_digit_10(c) == is_digit(c)

char_after_keyword(c) == is_whitespace(c) \/ c \in {";", ":", "="}

is_boring_whitespace(c) == c # " " /\ is_whitespace(c) /\ c # "\n"

\* Token: a unit variant has no text, Other and Number carry theirs
Tok(kind) == [kind |-> kind, s |-> <<>>]

Other(s) == [kind |-> "Other", s |-> s]

Number(s) == [kind |-> "Number", s |-> s]

EOF == Err(<<"EOF">>)

\* the match of possible_keyword: the text of each keyword and its token
KEYWORD_TABLE ==
  {<<<<"B", "E", "G", "I", "N">>, "BEGIN">>,
   <<<<"E", "N", "D">>, "END">>,
   <<<<"D", "T", "S", "T", "A", "R", "T">>, "DTSTART">>,
   <<<<"D", "T", "E", "N", "D">>, "DTEND">>,
   <<<<"T", "Z", "I", "D">>, "TZID">>,
   <<<<"V", "C", "A", "L", "E", "N", "D", "A", "R">>, "VCALENDAR">>,
   <<<<"V", "E", "V", "E", "N", "T">>, "VEVENT">>,
   <<<<"L", "O", "C", "A", "T", "I", "O", "N">>, "LOCATION">>,
   <<<<"R", "R", "U", "L", "E">>, "RRULE">>,
   <<<<"S", "U", "M", "M", "A", "R", "Y">>, "SUMMARY">>,
   <<<<"T", "R", "A", "N", "S", "P">>, "TRANSP">>,
   <<<<"F", "R", "E", "Q">>, "FREQ">>,
   <<<<"I", "N", "T", "E", "R", "V", "A", "L">>, "INTERVAL">>,
   <<<<"C", "O", "U", "N", "T">>, "COUNT">>,
   <<<<"U", "N", "T", "I", "L">>, "UNTIL">>,
   <<<<"S", "E", "C", "O", "N", "D", "L", "Y">>, "SECONDLY">>,
   <<<<"M", "I", "N", "U", "T", "E", "L", "Y">>, "MINUTELY">>,
   <<<<"H", "O", "U", "R", "L", "Y">>, "HOURLY">>,
   <<<<"D", "A", "I", "L", "Y">>, "DAILY">>,
   <<<<"W", "E", "E", "K", "L", "Y">>, "WEEKLY">>,
   <<<<"M", "O", "N", "T", "H", "L", "Y">>, "MONTHLY">>,
   <<<<"Y", "E", "A", "R", "L", "Y">>, "YEARLY">>,
   <<<<"B", "Y", "M", "I", "N">>, "BYMIN">>,
   <<<<"B", "Y", "H", "O", "U", "R">>, "BYHOUR">>,
   <<<<"B", "Y", "D", "A", "Y">>, "BYDAY">>,
   <<<<"B", "Y", "M", "O", "N", "T", "H", "D", "A", "Y">>, "BYMONTHDAY">>,
   <<<<"B", "Y", "Y", "E", "A", "R", "D", "A", "Y">>, "BYYEARDAY">>,
   <<<<"B", "Y", "W", "E", "E", "K", "N", "O">>, "BYWEEKNO">>,
   <<<<"B", "Y", "M", "O", "N", "T", "H">>, "BYMONTH">>,
   <<<<"B", "Y", "S", "E", "T", "P", "O", "S">>, "BYSETPOS">>,
   <<<<"W", "K", "S", "T">>, "WKST">>}

\* what a lexer method gives: its result and the stream it leaves
Lexed(r, stream) == [res |-> r, stream |-> stream]

\* how many chars at the front of the stream are in the set chars
run_len(stream, chars) ==
  IF \A i \in 1..Len(stream) : stream[i] \in chars THEN Len(stream)
  ELSE (CHOOSE i \in 1..Len(stream) :
          /\ stream[i] \notin chars
          /\ \A j \in 1..(i - 1) : stream[j] \in chars) - 1

drop(stream, n) == SubSeq(stream, n + 1, Len(stream))

\* self.skip(); Ok(tok)
IcsLexer_single_without_skip(stream, tok) == Lexed(Ok(tok), stream)

\* IcsLexer::single
IcsLexer_single(stream, tok) ==
  Lexed(Ok(tok), IF stream = <<>> THEN <<>> ELSE Tail(stream))

\* IcsLexer::skip_while(is_boring_whitespace)
IcsLexer_skip_while(stream) ==
  IF stream = <<>> THEN Lexed(EOF, stream)
  ELSE Lexed(Ok("unit"),
             drop(stream, run_len(stream, {c \in {"\t", "\r"} :
                                             is_boring_whitespace(c)})))

\* ret of take_while once n chars have passed pred
taken(stream, n) == Lexed(Ok(SubSeq(stream, 1, n)), drop(stream, n))

\* IcsLexer::take_while: the chars taken and the stream left
IcsLexer_take_while(stream, chars) == taken(stream, run_len(stream, chars))

\* the match ident_str.as_str() of possible_keyword
keyword_match(ident_str) ==
  IF \E kw \in KEYWORD_TABLE : kw[1] = ident_str
    THEN Tok((CHOOSE kw \in KEYWORD_TABLE : kw[1] = ident_str)[2])
    ELSE Other(ident_str)

\* let ident_str = self.take_while(|c| c.is_alphabetic())?
ident_run(stream) ==
  IcsLexer_take_while(stream, {c \in ASCII_UPPER \cup ASCII_LOWER
                                 \cup {E_ACUTE} : is_alphabetic(c)})

\* possible_keyword after take_while: the test of the next char, the match
keyword_or_other(ident) ==
  IF ident.stream # <<>> /\ ~char_after_keyword(Head(ident.stream))
    THEN Lexed(Ok(Other(ident.res.val)), ident.stream)
    ELSE Lexed(Ok(keyword_match(ident.res.val)), ident.stream)

\* IcsLexer::possible_keyword
IcsLexer_possible_keyword(stream) == keyword_or_other(ident_run(stream))

\* Ok(Token::Number(num_str))
number_of(num_str) == Lexed(Ok(Number(num_str.res.val)), num_str.stream)

\* IcsLexer::number
IcsLexer_number(stream) ==
  number_of(IcsLexer_take_while(stream,
              {c \in {DIGITS[i] : i \in 1..Len(DIGITS)} : is_digit_10(c)}))

\* the match curr_char of IcsLexer::token
token_match(stream) ==
  CASE Head(stream) = ":" -> IcsLexer_single(stream, Tok("COLON"))
    [] Head(stream) = ";" -> IcsLexer_single(stream, Tok("SEMICOLON"))
    [] Head(stream) = "=" -> IcsLexer_single(stream, Tok("EQ"))
    [] Head(stream) = "/" -> IcsLexer_single(stream, Tok("SLASH"))
    [] Head(stream) = "_" -> IcsLexer_single(stream, Tok("UNDERSCORE"))
    [] Head(stream) = "-" -> IcsLexer_single(stream, Tok("DASH"))
    [] Head(stream) = "\n" -> IcsLexer_single(stream, Tok("NEXTLINE"))
    [] Head(stream) = "." -> IcsLexer_single(stream, Tok("PERIOD"))
    [] Head(stream) = "," -> IcsLexer_single(stream, Tok("COMMA"))
    [] Head(stream) \in ASCII_UPPER \cup ASCII_LOWER
         -> IcsLexer_possible_keyword(stream)
    [] is_digit(Head(stream)) -> IcsLexer_number(stream)
    [] OTHER -> IcsLexer_single(stream, Other(<<Head(stream)>>))

\* IcsLexer::token
RECURSIVE token_after_skip(_)
IcsLexer_token(stream) ==
  IF stream = <<>> THEN Lexed(EOF, stream)
  ELSE IF is_boring_whitespace(Head(stream))
    THEN token_after_skip(IcsLexer_skip_while(stream))
  ELSE token_match(stream)

\* self.skip_while(is_boring_whitespace)?; self.token()
token_after_skip(skipped) ==
  IF ~skipped.res.ok THEN skipped ELSE IcsLexer_token(skipped.stream)

-----------------------------------------------------------------------------
(* ics_parser/peekbuf.rs: a PeekBuffer is its buf, the stream of its lexer  *)
(* and, as a record of what happened, the results the lexer has given.     *)

PeekBuffer(buf, stream, lexed) ==
  [buf |-> buf, stream |-> stream, lexed |-> lexed]

\* PeekBuffer::from_lexer
PeekBuffer_from_lexer(stream) == PeekBuffer(<<>>, stream, <<>>)

\* self.buf.push_back(self.lex.token())
push_back(self, lexed) ==
  PeekBuffer(Append(self.buf, lexed.res), lexed.stream,
             Append(self.lexed, lexed.res))

push_back_token(self) == push_back(self, IcsLexer_token(self.stream))

\* while self.buf.len() <= n { push_back(..) }
RECURSIVE peek_fill(_, _)
peek_fill(self, n) ==
  IF Len(self.buf) <= n THEN peek_fill(push_back_token(self), n) ELSE self

\* what a call gives: the result returned and the buffer afterwards
Called(ret, self) == [ret |-> ret, self |-> self]

\* peek that asks the lexer for a token before it looks at the queue
peek_always_lexes(self, n) ==
  [ret |-> peek_fill(push_back_token(self), n).buf[n + 1],
   self |-> peek_fill(push_back_token(self), n)]

\* self.buf.get(n).expect(..).as_ref()
got(filled, n) == Called(filled.buf[n + 1], filled)

\* PeekBuffer::peek
PeekBuffer_peek(self, n) == got(peek_fill(self, n), n)

\* token written with unwrap_or: the lexer is asked before the queue is
\* looked at
token_unwrap_or(self) ==
  IF self.buf # <<>>
    THEN Called(Head(self.buf),
                PeekBuffer(Tail(self.buf),
                           IcsLexer_token(self.stream).stream,
                           Append(self.lexed,
                                  IcsLexer_token(self.stream).res)))
    ELSE Called(IcsLexer_token(self.stream).res,
                PeekBuffer(<<>>, IcsLexer_token(self.stream).stream,
                           Append(self.lexed,
                                  IcsLexer_token(self.stream).res)))

\* None => self.lex.token()
token_from_lexer(self, lexed) ==
  Called(lexed.res,
         PeekBuffer(<<>>, lexed.stream, Append(self.lexed, lexed.res)))

\* PeekBuffer::token
PeekBuffer_token(self) ==
  IF self.buf # <<>>
    THEN Called(Head(self.buf),
                PeekBuffer(Tail(self.buf), self.stream, self.lexed))
    ELSE token_from_lexer(self, IcsLexer_token(self.stream))

-----------------------------------------------------------------------------
(* ics_parser/ics_syntax.rs: ICSParser over its PeekBuffer. A String is a   *)
(* sequence of strings, an ICSProcessError its variant followed by the     *)
(* pieces of its text.                                                     *)

ICS_ASSUME_TRANSP_ALWAYS_AFTER_SUMMARY == TRUE

\* ICS_DEFAULT_TIME_IN_DAY: "235900"
ICS_DEFAULT_TIME_IN_DAY == <<"2", "3", "5", "9", "0", "0">>

\* the backquote of the format strings, which a string here cannot hold
BACKQUOTE == "BACKQUOTE"

\* impl Display for Token
Token_display(t) ==
  IF t.kind = "Other" THEN (<<"Other(">> \o t.s) \o <<")">>
  ELSE IF t.kind = "Number" THEN (<<"Number(\"">> \o t.s) \o <<"\")">>
  ELSE <<t.kind>>

\* Token::cast_as_string
Token_cast_as_string(t) ==
  CASE t.kind = "COLON" -> <<":">>
    [] t.kind = "SEMICOLON" -> <<";">>
    [] t.kind = "PERIOD" -> <<".">>
    [] t.kind = "EQ" -> <<"=">>
    [] t.kind = "SLASH" -> <<"/">>
    [] t.kind = "UNDERSCORE" -> <<"_">>
    [] t.kind = "DASH" -> <<"-">>
    [] t.kind \in {"Other", "Number"} -> t.s
    [] t.kind = "NEXTLINE" -> <<"\\", "n">>
    [] OTHER -> Token_display(t)

\* lexer::not_in_summary, as the set of the tokens it is true of
not_in_summary ==
  {Tok("END")}
    \cup (IF ICS_ASSUME_TRANSP_ALWAYS_AFTER_SUMMARY THEN {Tok("TRANSP")}
          ELSE {})

\* ICSProcessError::Other(format!(..)), NaN, InvalidFreq, ICSTimeMalformatted
ICSProcessError_Other(msg) == <<"Other">> \o msg

ICSProcessError_NaN(t) == <<"NaN">> \o Token_display(t)

ICSProcessError_InvalidFreq(t) == <<"InvalidFreq">> \o Token_display(t)

ICSTimeMalformatted(ymd, hms) ==
  ((<<"ICSTimeMalformatted">> \o ymd) \o <<"/">>) \o hms

\* what a method of the parser gives: Ok(val), Err(err) or a panic, and the
\* PeekBuffer it leaves
POk(v, self) == [ok |-> TRUE, panic |-> FALSE, val |-> v, self |-> self]

PErr(e, self) == [ok |-> FALSE, panic |-> FALSE, err |-> e, self |-> self]

PPanic(self) ==
  [ok |-> FALSE, panic |-> TRUE, err |-> <<"panic">>, self |-> self]

\* a Result of the PeekBuffer, as what the parser's method gives
of_called(c) ==
  IF c.ret.ok THEN POk(c.ret.val, c.self) ELSE PErr(c.ret.err, c.self)

\* ICSParser::token
ICSParser_token(self) == of_called(PeekBuffer_token(self))

\* ICSParser::peek(0), with `?`
ICSParser_peek0(self) == of_called(PeekBuffer_peek(self, 0))

\* the body of munch, tok being self.token()
munch_check(tok, expected_tok) ==
  IF ~tok.ok THEN tok
  ELSE IF tok.val = expected_tok THEN POk("unit", tok.self)
  ELSE PErr(ICSProcessError_Other(
              ((<<"Expected ">> \o Token_display(expected_tok))
                 \o <<", found ">>) \o Token_display(tok.val)),
            tok.self)

\* ICSParser::munch
ICSParser_munch(self, expected_tok) ==
  munch_check(ICSParser_token(self), expected_tok)

\* self.munch(expected_tok)? after a step p that may have failed
then_munch(p, expected_tok) ==
  IF ~p.ok THEN p ELSE ICSParser_munch(p.self, expected_tok)

\* self.token()?; Ok(())
skip_of(tok) == IF tok.ok THEN POk("unit", tok.self) ELSE tok

\* ICSParser::skip
ICSParser_skip(self) == skip_of(ICSParser_token(self))

\* the body of number, tok being self.token()
number_check(tok) ==
  IF ~tok.ok THEN tok
  ELSE IF tok.val.kind = "Number" THEN POk(tok.val.s, tok.self)
  ELSE PErr(ICSProcessError_NaN(tok.val), tok.self)

\* ICSParser::number
ICSParser_number(self) == number_check(ICSParser_token(self))

\* ICSParser::string_until, cond being membership in stops
\* a turn of its loop either ends string_until, which returns p, or leaves
\* ret for the next turn
StringOver(p) == [over |-> TRUE, p |-> p, self |-> p.self]

StringMore(ret, self) == [over |-> FALSE, ret |-> ret, self |-> self]

\* let head = self.token()?; ret.push_str(&head.cast_as_string())
string_until_take(head, ret) ==
  IF ~head.ok THEN StringOver(head)
  ELSE StringMore(ret \o Token_cast_as_string(head.val), head.self)

\* one turn of the loop, t being self.peek(0)
string_until_turn(t, stops, ret) ==
  IF ~t.ok \/ t.val \in stops THEN StringOver(POk(ret, t.self))
  ELSE string_until_take(ICSParser_token(t.self), ret)

RECURSIVE string_until_loop(_, _, _)
string_until_next(turn, stops) ==
  IF turn.over THEN turn.p
  ELSE string_until_loop(turn.self, stops, turn.ret)

string_until_loop(self, stops, ret) ==
  string_until_next(string_until_turn(ICSParser_peek0(self), stops, ret),
                    stops)

ICSParser_string_until(self, stops) == string_until_loop(self, stops, <<>>)

\* str::parse::<u32> of a slice; a slice that leaves the string panics, which
\* the length test of from_ics_time_string rules out
parse_slice(s, from, to) == u32_from_str(SubSeq(s, from + 1, to))

\* the match of from_ics_time_string on the five parsed numbers
ics_time_fields(y, m, d, h, mn, tz) ==
  IF ~CeYear_new(y).ok THEN None
  ELSE IF m < 1 \/ m - 1 > 11 THEN None
  ELSE IF ~(d <= Month_num_days(MONTH_LIST[m], y) /\ d > 0) THEN None
  ELSE IF ~(h <= 23) THEN None
  ELSE IF ~(mn <= 59) THEN None
  ELSE Some([yr |-> y, mon |-> MONTH_LIST[m], day |-> d, hr |-> h,
             min |-> mn, tz |-> tz])

\* the match (yr_res, mon_res, day_res, hr_res, min_res)
ics_time_parsed(ymd, hms, tz, y, m, d, h, mn) ==
  IF ~(y.ok /\ m.ok /\ d.ok /\ h.ok /\ mn.ok)
    THEN Err(ICSTimeMalformatted(ymd, hms))
  ELSE IF ics_time_fields(y.val, m.val, d.val, h.val, mn.val, tz).some
    THEN Ok(ics_time_fields(y.val, m.val, d.val, h.val, mn.val, tz).val)
  ELSE Err(ICSTimeMalformatted(ymd, hms))

\* Date::from_ics_time_string(ymd, hms, tz)
Date_from_ics_time_string(ymd, hms, tz) ==
  IF Len(ymd) < 8 \/ Len(hms) < 6 THEN Err(ICSTimeMalformatted(ymd, hms))
  ELSE ics_time_parsed(ymd, hms, tz, parse_slice(ymd, 0, 4),
         parse_slice(ymd, 4, 6), parse_slice(ymd, 6, 8),
         parse_slice(hms, 0, 2), parse_slice(hms, 2, 4))

\* Date::from_ics_time_string(&ymd, &hms) as dt_literal calls it: the date
\* is read in utc
from_ics_time_string_2(ymd, hms) ==
  Date_from_ics_time_string(ymd, hms, ZoneOffset_utc)

\* match MinInstant::from_date(&dt): Ok(mi), or unreachable!()
dt_instant(from_date, self) ==
  IF from_date.ok THEN POk(from_date.val, self) ELSE PPanic(self)

dt_date(dt, self) ==
  IF ~dt.ok THEN PErr(dt.err, self)
  ELSE dt_instant(MinInstant_from_date(dt.val), self)

\* the end of dt_literal: the Date of the two strings, then from_date
dt_literal_finish(ymd, hms, self) ==
  dt_date(from_ics_time_string_2(ymd, hms), self)

\* self.munch(Token::Other("Z"))?, then the Date
dt_after_z(ymd, hms, z) ==
  IF ~z.ok THEN z ELSE dt_literal_finish(ymd, hms, z.self)

\* dt_literal after hms: the Z that ends a literal with no zone
dt_literal_z(ymd, hms, zone_specified) ==
  IF ~hms.ok THEN hms
  ELSE IF zone_specified THEN dt_literal_finish(ymd, hms.val, hms.self)
  ELSE dt_after_z(ymd, hms.val, ICSParser_munch(hms.self, Other(<<"Z">>)))

\* self.skip()?; let hms = self.number()?
dt_after_t(ymd, skipped, zone_specified) ==
  IF ~skipped.ok THEN skipped
  ELSE dt_literal_z(ymd, ICSParser_number(skipped.self), zone_specified)

\* dt_literal after ymd, t being self.peek(0)
dt_literal_time(ymd, t, zone_specified) ==
  IF ~t.ok THEN t
  ELSE IF t.val = Other(<<"T">>)
    THEN dt_after_t(ymd, ICSParser_skip(t.self), zone_specified)
  ELSE dt_literal_finish(ymd, ICS_DEFAULT_TIME_IN_DAY, t.self)

dt_literal_ymd(ymd, zone_specified) ==
  IF ~ymd.ok THEN ymd
  ELSE dt_literal_time(ymd.val, ICSParser_peek0(ymd.self), zone_specified)

\* dt_literal that never asks for the Z
ICSParser_dt_literal_taking_no_z(self, zone_specified) ==
  dt_literal_ymd(ICSParser_number(self), TRUE)

\* ICSParser::dt_literal
ICSParser_dt_literal(self, zone_specified) ==
  dt_literal_ymd(ICSParser_number(self), zone_specified)

\* self.munch(Token::COLON)?; return self.dt_literal(true)
dt_zone_colon(colon) ==
  IF ~colon.ok THEN colon ELSE ICSParser_dt_literal(colon.self, TRUE)

\* dt_possible_timezone after ;TZID= : the zone's text up to the colon
dt_zone_text(tz_string) ==
  IF ~tz_string.ok THEN tz_string
  ELSE dt_zone_colon(ICSParser_munch(tz_string.self, Tok("COLON")))

dt_zone(eq) ==
  IF ~eq.ok THEN eq
  ELSE dt_zone_text(ICSParser_string_until(eq.self, {Tok("COLON")}))

\* the match of dt_possible_timezone, tok being self.token()
dt_possible_timezone_match(tok) ==
  IF ~tok.ok THEN tok
  ELSE IF tok.val = Tok("SEMICOLON")
    THEN dt_zone(then_munch(ICSParser_munch(tok.self, Tok("TZID")),
                            Tok("EQ")))
  ELSE IF tok.val = Tok("COLON") THEN ICSParser_dt_literal(tok.self, FALSE)
  ELSE PErr(ICSProcessError_Other(<<"Expected : or ; after dt, found ">>
                                    \o Token_display(tok.val)),
            tok.self)

\* ICSParser::dt_possible_timezone
ICSParser_dt_possible_timezone(self) ==
  dt_possible_timezone_match(ICSParser_token(self))

after_munch(p) ==
  IF ~p.ok THEN p ELSE ICSParser_dt_possible_timezone(p.self)

\* ICSParser::dtstart, ICSParser::dtend
ICSParser_dtstart(self) == after_munch(ICSParser_munch(self, Tok("DTSTART")))

ICSParser_dtend(self) == after_munch(ICSParser_munch(self, Tok("DTEND")))

\* ICSParser::tok_lst, end being membership in ends
RECURSIVE tok_lst_loop(_, _, _, _, _)
tok_lst_sep(skipped, sep, ends, ret, entry) ==
  IF ~skipped.ok THEN skipped
  ELSE tok_lst_loop(skipped.self, sep, ends, Append(ret, entry), <<>>)

tok_lst_take(tok, sep, ends, ret, entry) ==
  IF ~tok.ok THEN tok
  ELSE tok_lst_loop(tok.self, sep, ends, ret,
                    entry \o Token_cast_as_string(tok.val))

tok_lst_turn(next_tok, sep, ends, ret, entry) ==
  IF ~next_tok.ok THEN next_tok
  ELSE IF next_tok.val \in ends THEN POk(Append(ret, entry), next_tok.self)
  ELSE IF next_tok.val = sep
    THEN tok_lst_sep(ICSParser_skip(next_tok.self), sep, ends, ret, entry)
  ELSE tok_lst_take(ICSParser_token(next_tok.self), sep, ends, ret, entry)

tok_lst_loop(self, sep, ends, ret, entry) ==
  tok_lst_turn(ICSParser_peek0(self), sep, ends, ret, entry)

ICSParser_tok_lst(self, sep, ends) ==
  tok_lst_loop(self, sep, ends, <<>>, <<>>)

\* RRuleToks { tag, content }
RRuleToks(tag, content) == [tag |-> tag, content |-> content]

rrule_content(tag, content) ==
  IF ~content.ok THEN content
  ELSE POk(RRuleToks(tag, content.val), content.self)

rrule_eq(tag, eq) ==
  IF ~eq.ok THEN eq
  ELSE rrule_content(tag,
         ICSParser_tok_lst(eq.self, Tok("COMMA"),
                           {Tok("NEXTLINE"), Tok("SEMICOLON")}))

rrule_tag(tag) ==
  IF ~tag.ok THEN tag
  ELSE rrule_eq(tag.val, ICSParser_munch(tag.self, Tok("EQ")))

\* ICSParser::rrule
ICSParser_rrule(self) == rrule_tag(ICSParser_token(self))

\* FreqAndRRules { freq, content, interval, count, until }
FreqAndRRules(freq, content, interval, count, until) ==
  [freq |-> freq, content |-> content, interval |-> interval,
   count |-> count, until |-> until]

\* str::parse::<usize>
usize_from_str(s) == u32_from_str(s)

\* the loop of rrules: acc is the FreqAndRRules so far.  A turn of the loop
\* either ends rrules, which returns p, or leaves acc for the next turn
RrulesOver(p) == [over |-> TRUE, p |-> p, self |-> p.self]

RrulesMore(acc, self) == [over |-> FALSE, acc |-> acc, self |-> self]

rrules_interval(num_string, acc) ==
  IF ~num_string.ok THEN RrulesOver(num_string)
  ELSE IF usize_from_str(num_string.val).ok
    THEN RrulesMore([acc EXCEPT !.interval = usize_from_str(num_string.val).val],
                    num_string.self)
  ELSE RrulesOver(
         PErr(ICSProcessError_Other(num_string.val
                                      \o <<" is not valid interval usize">>),
              num_string.self))

rrules_count(num_string, acc) ==
  IF ~num_string.ok THEN RrulesOver(num_string)
  ELSE IF usize_from_str(num_string.val).ok
    THEN RrulesMore(
           [acc EXCEPT !.count = Some(usize_from_str(num_string.val).val)],
           num_string.self)
  ELSE RrulesOver(
         PErr(ICSProcessError_Other(num_string.val
                                      \o <<" is not count valid usize">>),
              num_string.self))

rrules_until(until, acc) ==
  IF ~until.ok THEN RrulesOver(until)
  ELSE RrulesMore([acc EXCEPT !.until = Some(until.val)], until.self)

rrules_rule(rule, acc) ==
  IF ~rule.ok THEN RrulesOver(rule)
  ELSE RrulesMore([acc EXCEPT !.content = Append(acc.content, rule.val)],
                  rule.self)

\* self.munch(Token::EQ)? after the skip
eq_after(skipped) ==
  IF ~skipped.ok THEN skipped ELSE ICSParser_munch(skipped.self, Tok("EQ"))

\* self.skip()?; self.munch(Token::EQ)?
skip_and_eq(self) == eq_after(ICSParser_skip(self))

rrules_number(eq) == IF ~eq.ok THEN eq ELSE ICSParser_number(eq.self)

rrules_dt(eq) == IF ~eq.ok THEN eq ELSE ICSParser_dt_literal(eq.self, FALSE)

rrules_semicolon(skipped, acc) ==
  IF ~skipped.ok THEN RrulesOver(skipped) ELSE RrulesMore(acc, skipped.self)

\* the match of the loop of rrules, t being self.peek(0); ready_to_rrule is
\* set to true and never to false
rrules_turn(t, acc) ==
  IF ~t.ok THEN RrulesOver(t)
  ELSE CASE t.val = Tok("SEMICOLON")
              -> rrules_semicolon(ICSParser_skip(t.self), acc)
         [] t.val = Tok("NEXTLINE") -> RrulesOver(POk(acc, t.self))
         [] t.val = Tok("INTERVAL")
              -> rrules_interval(rrules_number(skip_and_eq(t.self)), acc)
         [] t.val = Tok("COUNT")
              -> rrules_count(rrules_number(skip_and_eq(t.self)), acc)
         [] t.val = Tok("UNTIL")
              -> rrules_until(rrules_dt(skip_and_eq(t.self)), acc)
         [] OTHER -> rrules_rule(ICSParser_rrule(t.self), acc)

RECURSIVE rrules_loop(_, _)
rrules_next(turn) ==
  IF turn.over THEN turn.p ELSE rrules_loop(turn.self, turn.acc)

rrules_loop(self, acc) == rrules_next(rrules_turn(ICSParser_peek0(self), acc))

\* the match on the token after FREQ=
rrules_freq(tok) ==
  IF ~tok.ok THEN tok
  ELSE CASE tok.val = Tok("DAILY") -> POk("Daily", tok.self)
         [] tok.val = Tok("WEEKLY") -> POk("Weekly", tok.self)
         [] tok.val = Tok("MONTHLY") -> POk("Monthly", tok.self)
         [] tok.val = Tok("YEARLY") -> POk("Yearly", tok.self)
         [] OTHER -> PErr(ICSProcessError_InvalidFreq(tok.val), tok.self)

\* the locals of rrules before its loop: content, interval = 1, count and
\* until = None
rrules_locals(freq) ==
  IF ~freq.ok THEN freq
  ELSE POk(FreqAndRRules(freq.val, <<>>, 1, None, None), freq.self)

rrules_header(eq) ==
  IF ~eq.ok THEN eq ELSE rrules_locals(rrules_freq(ICSParser_token(eq.self)))

\* rrules up to its loop: the four munches, the match on FREQ, the locals
rrules_begin(self) ==
  rrules_header(
    then_munch(then_munch(then_munch(ICSParser_munch(self, Tok("RRULE")),
                                     Tok("COLON")),
                          Tok("FREQ")),
               Tok("EQ")))

rrules_after_begin(began) ==
  IF ~began.ok THEN began ELSE rrules_loop(began.self, began.val)

\* ICSParser::rrules
ICSParser_rrules(self) == rrules_after_begin(rrules_begin(self))

\* Vevent { repeat, mi, summary }
Vevent(repeat, miv, summary) ==
  [repeat |-> repeat, mi |-> miv, summary |-> summary]

\* the locals of vevent: dtstart, dtend, summary, recur
VeventLocals(dtstart, dtend, summary, recur) ==
  [dtstart |-> dtstart, dtend |-> dtend, summary |-> summary,
   recur |-> recur]

\* let mut dtstart = None; dtend = None; summary = String::new(); recur = None
NewVeventLocals == VeventLocals(None, None, <<>>, None)

\* what a turn of the loop of vevent gives: the loop goes on with new
\* locals, or vevent returns
Goes(locals, self) ==
  [returns |-> FALSE, scans |-> FALSE, locals |-> locals, self |-> self]

\* the turn has entered self.string_until(not_in_summary)
Scans(locals, self) ==
  [returns |-> FALSE, scans |-> TRUE, locals |-> locals, self |-> self]

Returns(p) == [returns |-> TRUE, ret |-> p, self |-> p.self]

\* the match (dtstart, dtend) at END:VEVENT
vevent_result(locals, self) ==
  IF locals.dtstart.some /\ locals.dtend.some
    THEN POk(Vevent(locals.recur,
                    MinInterval_new(locals.dtstart.val, locals.dtend.val),
                    locals.summary),
             self)
  ELSE IF ~locals.dtstart.some
    THEN PErr(ICSProcessError_Other((<<"VEVENT ", BACKQUOTE>> \o locals.summary)
                                      \o <<BACKQUOTE, " missing dtstart">>),
              self)
  ELSE PErr(ICSProcessError_Other((<<"VEVENT ", BACKQUOTE>> \o locals.summary)
                                    \o <<BACKQUOTE, " missing dtend">>),
            self)

\* the Token::END arm after its two munches, end_tag being self.token()
vevent_end_tag(end_tag, locals) ==
  IF ~end_tag.ok THEN end_tag
  ELSE IF end_tag.val = Tok("VEVENT") THEN vevent_result(locals, end_tag.self)
  ELSE PErr(ICSProcessError_Other(<<"VEVENT contains unexpected end: ">>
                                    \o Token_display(end_tag.val)),
            end_tag.self)

vevent_end(colon, locals) ==
  IF ~colon.ok THEN colon
  ELSE vevent_end_tag(ICSParser_token(colon.self), locals)

\* the last arm: self.skip()?
vevent_skip(p, locals) == IF ~p.ok THEN Returns(p) ELSE Goes(locals, p.self)

\* dtstart = Some(self.dtstart()?), and the like
vevent_dtstart(p, locals) ==
  IF ~p.ok THEN Returns(p)
  ELSE Goes([locals EXCEPT !.dtstart = Some(p.val)], p.self)

vevent_dtend(p, locals) ==
  IF ~p.ok THEN Returns(p)
  ELSE Goes([locals EXCEPT !.dtend = Some(p.val)], p.self)

vevent_set_summary(p, locals) ==
  IF ~p.ok THEN Returns(p)
  ELSE Goes([locals EXCEPT !.summary = p.val], p.self)

vevent_recur(p, locals) ==
  IF ~p.ok THEN Returns(p)
  ELSE Goes([locals EXCEPT !.recur = Some(p.val)], p.self)

\* the Token::SUMMARY arm after its two munches
vevent_summary(colon, locals) ==
  IF ~colon.ok THEN Returns(colon) ELSE Scans(locals, colon.self)

\* one turn of the loop of vevent, t being self.peek(0)
vevent_turn(t, locals) ==
  IF ~t.ok THEN Returns(t)
  ELSE CASE t.val = Tok("DTSTART")
              -> vevent_dtstart(ICSParser_dtstart(t.self), locals)
         [] t.val = Tok("DTEND")
              -> vevent_dtend(ICSParser_dtend(t.self), locals)
         [] t.val = Tok("SUMMARY")
              -> vevent_summary(
                   then_munch(ICSParser_munch(t.self, Tok("SUMMARY")),
                              Tok("COLON")),
                   locals)
         [] t.val = Tok("RRULE")
              -> vevent_recur(ICSParser_rrules(t.self), locals)
         [] t.val = Tok("END")
              -> Returns(vevent_end(
                   then_munch(ICSParser_munch(t.self, Tok("END")),
                              Tok("COLON")),
                   locals))
         [] OTHER -> vevent_skip(ICSParser_skip(t.self), locals)

\* the three munches that open vevent
vevent_begin(self) ==
  then_munch(then_munch(ICSParser_munch(self, Tok("BEGIN")), Tok("COLON")),
             Tok("VEVENT"))

\* ICSParser::peek_copy
ICSParser_peek_copy(self, pos) == of_called(PeekBuffer_peek(self, pos))

\* ICSParser::skip_until_lambda, cond being membership in stops
RECURSIVE skip_until_loop(_, _)
skip_until_skipped(skipped, stops) ==
  IF ~skipped.ok THEN skipped ELSE skip_until_loop(skipped.self, stops)

skip_until_turn(t, stops) ==
  IF ~t.ok THEN PErr(EOF.err, t.self)
  ELSE IF t.val \in stops THEN POk("unit", t.self)
  ELSE skip_until_skipped(ICSParser_skip(t.self), stops)

skip_until_loop(self, stops) == skip_until_turn(ICSParser_peek0(self), stops)

ICSParser_skip_until_lambda(self, stops) == skip_until_loop(self, stops)

\* ICalendar { name, content }
ICalendar(name, content) == [name |-> name, content |-> content]

\* the name of the lexer the parser was made from
LEXER_NAME == "name"

end_munched(munched, vevents) ==
  IF ~munched.ok THEN munched
  ELSE POk(ICalendar(LEXER_NAME, vevents), munched.self)

\* end that returns a calendar with no events
ICSParser_end_with_no_events(self, vevents) ==
  end_munched(
    then_munch(then_munch(ICSParser_munch(self, Tok("END")), Tok("COLON")),
               Tok("VCALENDAR")),
    <<>>)

\* ICSParser::end
ICSParser_end(self, vevents) ==
  end_munched(
    then_munch(then_munch(ICSParser_munch(self, Tok("END")), Tok("COLON")),
               Tok("VCALENDAR")),
    vevents)

\* what a turn of the loop of parse gives: parse returns p, the loop goes
\* on, or vevent is called
ParseOver(p) == [kind |-> "over", p |-> p, self |-> p.self]

ParseMore(self) == [kind |-> "more", self |-> self]

ParseCalls(self) == [kind |-> "vevent", self |-> self]

\* the arm (BEGIN | END, COLON, _): self.skip()?
parse_skip(skipped) ==
  IF ~skipped.ok THEN ParseOver(skipped) ELSE ParseMore(skipped.self)

\* the match on the three peeked tokens, p2 being self.peek_copy(2)
parse_match(t0, t1, p2, vevents) ==
  IF ~p2.ok THEN ParseOver(p2)
  ELSE CASE t0 = Tok("BEGIN") /\ t1 = Tok("COLON") /\ p2.val = Tok("VEVENT")
              -> ParseCalls(p2.self)
         [] t0 = Tok("END") /\ t1 = Tok("COLON") /\ p2.val = Tok("VCALENDAR")
              -> ParseOver(ICSParser_end(p2.self, vevents))
         [] /\ t0 \in {Tok("BEGIN"), Tok("END")} /\ t1 = Tok("COLON")
            /\ ~(t0 = Tok("BEGIN") /\ p2.val = Tok("VEVENT"))
            /\ ~(t0 = Tok("END") /\ p2.val = Tok("VCALENDAR"))
              -> parse_skip(ICSParser_skip(p2.self))
         [] t0 \in {Tok("BEGIN"), Tok("END")} /\ t1 # Tok("COLON")
              -> ParseOver(
                   PErr(ICSProcessError_Other(
                          <<"Expected COLON after BEGIN / END, found ">>
                            \o Token_display(t1)),
                        p2.self))
         [] OTHER -> ParseOver(PPanic(p2.self))

parse_peek2(t0, p1, vevents) ==
  IF ~p1.ok THEN ParseOver(p1)
  ELSE parse_match(t0, p1.val, ICSParser_peek_copy(p1.self, 2), vevents)

parse_peek1(p0, vevents) ==
  IF ~p0.ok THEN ParseOver(p0)
  ELSE parse_peek2(p0.val, ICSParser_peek_copy(p0.self, 1), vevents)

parse_peek0(skipped, vevents) ==
  IF ~skipped.ok THEN ParseOver(skipped)
  ELSE parse_peek1(ICSParser_peek_copy(skipped.self, 0), vevents)

\* one turn of the loop of parse
parse_turn(self, vevents) ==
  parse_peek0(ICSParser_skip_until_lambda(self, {Tok("BEGIN"), Tok("END")}),
              vevents)

\* the three munches that open parse
parse_begin(self) ==
  then_munch(then_munch(ICSParser_munch(self, Tok("BEGIN")), Tok("COLON")),
             Tok("VCALENDAR"))

-----------------------------------------------------------------------------
(* calendar/cal_event.rs and time/date.rs, time/week.rs: from the parsed   *)
(* RRULE to the Pattern.  A conversion gives Ok(val), Err(err) or a panic.  *)

TryOk(v) == [ok |-> TRUE, panic |-> FALSE, val |-> v]

TryErr(e) == [ok |-> FALSE, panic |-> FALSE, err |-> e]

TryPanic == [ok |-> FALSE, panic |-> TRUE, err |-> <<"panic">>]

HANDLE_WKST == FALSE

\* impl From<&str> for Weekday: the seven names, a panic for any other text
Weekday_from_str(value) ==
  CASE value = <<"M", "O">> -> Some("MO")
    [] value = <<"T", "U">> -> Some("TU")
    [] value = <<"W", "E">> -> Some("WE")
    [] value = <<"T", "H">> -> Some("TH")
    [] value = <<"F", "R">> -> Some("FR")
    [] value = <<"S", "A">> -> Some("SA")
    [] value = <<"S", "U">> -> Some("SU")
    [] OTHER -> None

\* rrt.content.iter().map(|s| Weekday::from(s.as_str())).collect(), then
\* DateProperty::from(v): None when an item panics
weekdays_of(content) ==
  IF \A i \in 1..Len(content) : Weekday_from_str(content[i]).some
    THEN Some({Weekday_from_str(content[i]).val : i \in 1..Len(content)})
    ELSE None

UNIMPLEMENTED_TAGS ==
  {Tok("BYHOUR"), Tok("BYMIN"), Tok("BYMONTH"), Tok("BYMONTHDAY"),
   Tok("BYSETPOS"), Tok("BYWEEKNO"), Tok("BYYEARDAY")}

\* the locals of From<Vec<RRuleToks>>: dp and dp_is_always
DpLocals(dp, dp_is_always) == [dp |-> dp, dp_is_always |-> dp_is_always]

\* the Token::BYDAY arm, v being the weekdays of the items
from_rrules_byday(v, locals) ==
  IF ~v.some THEN None
  ELSE IF locals.dp_is_always THEN Some(DpLocals(v.val, FALSE))
  ELSE Some(DpLocals(DateProperty_mul(locals.dp, v.val), FALSE))

\* the match with the unimplemented rules passed over
from_rrules_match_passing_over(rrt, locals) ==
  CASE rrt.tag = Tok("BYDAY")
         -> from_rrules_byday(weekdays_of(rrt.content), locals)
    [] rrt.tag \in UNIMPLEMENTED_TAGS -> Some(locals)
    [] rrt.tag = Tok("WKST") -> IF HANDLE_WKST THEN None ELSE Some(locals)
    [] OTHER -> None

\* the match rrt.tag: None is a panic (unimplemented!, todo!, unreachable!,
\* or the panic of Weekday::from)
from_rrules_match(rrt, locals) ==
  CASE rrt.tag = Tok("BYDAY")
         -> from_rrules_byday(weekdays_of(rrt.content), locals)
    [] rrt.tag \in UNIMPLEMENTED_TAGS -> None
    [] rrt.tag = Tok("WKST") -> IF HANDLE_WKST THEN None ELSE Some(locals)
    [] OTHER -> None

\* for rrt in value { .. }
RECURSIVE from_rrules_loop(_, _)
from_rrules_next(value, turned) ==
  IF ~turned.some THEN None ELSE from_rrules_loop(Tail(value), turned.val)

from_rrules_loop(value, locals) ==
  IF value = <<>> THEN Some(locals.dp)
  ELSE from_rrules_next(value, from_rrules_match(Head(value), locals))

\* impl From<Vec<RRuleToks>> for DateProperty: Some(dp), or None for a panic
DateProperty_from_rrules(value) ==
  from_rrules_loop(value, DpLocals(DateProperty_always, TRUE))

\* impl From<RefinementError> for ICSProcessError
ICSProcessError_Refinement(r) == <<"Refinement", r>>

UntilAndCountBothAppear(c, inst) == <<"UntilAndCountBothAppear", c, inst>>

\* OneOrMore::try_new of a usize, which the model keeps within i64
OneOrMore_try_new(n) == RangedI64_try_new(1, I64_MAX, [fits |-> TRUE, n |-> n])

\* Term::Count(OneOrMore::try_new(c)?) and Ok(Pattern::Many(dp, itv, term))
pattern_of_count(dp, itv, c) ==
  IF ~c.ok THEN TryErr(ICSProcessError_Refinement(c.err))
  ELSE TryOk(Many(dp, itv, Count(c.val)))

\* the match with its last arm keeping the count
pattern_of_term_keeps_count(dp, itv, frq) ==
  CASE ~frq.count.some /\ ~frq.until.some -> TryOk(Many(dp, itv, Never))
    [] ~frq.count.some /\ frq.until.some
         -> TryOk(Many(dp, itv, Until(frq.until.val)))
    [] frq.count.some
         -> pattern_of_count(dp, itv, OneOrMore_try_new(frq.count.val))

\* the match (frq.count, frq.until) and what follows it
pattern_of_term(dp, itv, frq) ==
  CASE ~frq.count.some /\ ~frq.until.some -> TryOk(Many(dp, itv, Never))
    [] ~frq.count.some /\ frq.until.some
         -> TryOk(Many(dp, itv, Until(frq.until.val)))
    [] frq.count.some /\ ~frq.until.some
         -> pattern_of_count(dp, itv, OneOrMore_try_new(frq.count.val))
    [] frq.count.some /\ frq.until.some
         -> TryErr(UntilAndCountBothAppear(frq.count.val, frq.until.val))

\* let itv = OneOrMore::try_new(frq.interval)?
pattern_of_interval(dp, itv, frq) ==
  IF ~itv.ok THEN TryErr(ICSProcessError_Refinement(itv.err))
  ELSE pattern_of_term(dp, itv.val, frq)

\* let dp = DateProperty::from(frq.content)
pattern_of_dp(dp, frq) ==
  IF ~dp.some THEN TryPanic
  ELSE pattern_of_interval(dp.val, OneOrMore_try_new(frq.interval), frq)

\* try_from that repeats a weekly rule on Mondays
Pattern_try_from_reading_freq(value) ==
  IF ~value.some THEN TryOk(Once)
  ELSE IF value.val.freq = "Weekly" THEN pattern_of_dp(Some({"MO"}), value.val)
  ELSE pattern_of_dp(DateProperty_from_rrules(value.val.content), value.val)

\* impl TryFrom<Option<FreqAndRRules>> for Pattern
Pattern_try_from(value) ==
  IF ~value.some THEN TryOk(Once)
  ELSE pattern_of_dp(DateProperty_from_rrules(value.val.content), value.val)

\* Ok(Recurrence::new(ve.dt_interval, tz, patt?))
from_ve_of(ve, tz, patt) ==
  IF ~patt.ok THEN patt ELSE TryOk(Recurrence_new(ve.mi, tz, patt.val))

\* Recurrence::from_ve
Recurrence_from_ve(ve, tz) == from_ve_of(ve, tz, Pattern_try_from(ve.repeat))

-----------------------------------------------------------------------------
(* The civil calendar, as the claims state it: what the results are         *)
(* compared with.                                                          *)

CivilLeap(y) == (y % 400 = 0) \/ (y % 4 = 0 /\ y % 100 # 0)

CivilNumDays(m, y) ==
  IF m = "Feb" THEN (IF CivilLeap(y) THEN 29 ELSE 28)
  ELSE IF m \in {"Apr", "Jun", "Sep", "Nov"} THEN 30
  ELSE 31

\* leap years among the years 1..y
CivilLeapsThrough(y) == ((y \div 4) - (y \div 100)) + (y \div 400)

\* civil days from 1970-01-01 to the first day of year y
CivilDaysBeforeYear(y) ==
  (365 * (y - 1970)) + (CivilLeapsThrough(y - 1) - CivilLeapsThrough(1969))

RECURSIVE CivilDaysBeforeMonth(_, _)
CivilDaysBeforeMonth(i, y) ==
  IF i <= 1 THEN 0
  ELSE CivilDaysBeforeMonth(i - 1, y) + CivilNumDays(MONTH_LIST[i - 1], y)

\* civil days from 1970-01-01 to the date d
CivilDaysSinceEpoch(d) ==
  (CivilDaysBeforeYear(d.yr) + CivilDaysBeforeMonth(Month_as_usize(d.mon) + 1, d.yr))
    + (d.day - 1)

\* 1970-01-01 was a Thursday
CivilWeekday(d) == WEEKDAY_LIST[((3 + CivilDaysSinceEpoch(d)) % 7) + 1]

IsCivilDate(d) ==
  /\ d.yr >= 1970
  /\ d.mon \in Month
  /\ d.day >= 1 /\ d.day <= CivilNumDays(d.mon, d.yr)
  /\ d.hr \in 0..23
  /\ d.min \in 0..59

-----------------------------------------------------------------------------
(* Sampled inputs *)

\* the last day index (0-based) sampled within a year
MaxDayIndex == 365
\* the most conversions applied in a row to one origin
MaxChain == 2

YearSample == {1970, 1972, 2000, 2023}
ZoneSample == {UTC_LB, ZoneOffset_utc, 60, UTC_UB}
\* the offsets of the dates and instants that are converted
DateZoneSample == {ZoneOffset_utc, 60}
\* minutes into the day: 21:11, 23:59
MinuteOfDaySample == {1271, 1439}

\* raw counts: the sampled minutes of every sampled day of the sampled years
\* (the instant of the repository's tests, 2023/Jan/21 21:11, is one of them)
RawSample ==
  { ((CivilDaysBeforeYear(y) + d) * MIN_IN_DAY) + m :
      y \in YearSample, d \in 0..MaxDayIndex, m \in MinuteOfDaySample }

InstantSample == {MinInstant(r, z) : r \in RawSample, z \in DateZoneSample}

\* the valid civil dates of the sampled years
DateSample ==
  UNION { UNION { { [yr |-> y, mon |-> mo, day |-> dy,
                     hr |-> m \div MIN_IN_HR, min |-> m % MIN_IN_HR, tz |-> z] :
                      dy \in 1..CivilNumDays(mo, y),
                      m \in MinuteOfDaySample, z \in DateZoneSample } :
                  mo \in Month } :
          y \in YearSample }

EpochDate == [yr |-> 1970, mon |-> "Jan", day |-> 1, hr |-> 0, min |-> 0, tz |-> 0]
EpochInstant == MinInstant(0, 0)
NoOut == [op |-> "none", arg |-> EpochDate, val |-> "none"]

-----------------------------------------------------------------------------
(* The parts of the state a specification does not use stay as they start *)

NoRecv == [min |-> 0, max |-> 0, raw |-> 0]

NoRes == [op |-> "none", recv |-> NoRecv, arg |-> 0, r |-> Err("none")]

NoZoneArg == [kind |-> "none", n |-> 0, s |-> <<>>]

NoZoneRes == [done |-> FALSE, r |-> Err("none")]

DateIdle ==
  /\ mi = EpochInstant
  /\ date = EpochDate
  /\ origin = [kind |-> "none", mi |-> EpochInstant, date |-> EpochDate]
  /\ chain = <<>>
  /\ out = NoOut

RangedIdle ==
  /\ rv = NoRecv
  /\ res = NoRes

ZoneIdle ==
  /\ zarg = NoZoneArg
  /\ zres = NoZoneRes

NoInterval == [start |-> EpochInstant, end |-> EpochInstant]

NoInstRes ==
  [op |-> "none", x |-> EpochInstant, y |-> EpochInstant, tz |-> 0,
   val |-> 0, overflow |-> FALSE, panic |-> FALSE]

NoMivRes ==
  [op |-> "none", x |-> NoInterval, y |-> NoInterval, val |-> 0, rev |-> 0,
   overflow |-> FALSE, panic |-> FALSE]

InstantIdle ==
  /\ overflow_checks = TRUE
  /\ inst_a = EpochInstant /\ inst_b = EpochInstant /\ inst_res = NoInstRes
  /\ miv_a = NoInterval /\ miv_b = NoInterval /\ miv_res = NoMivRes

CoreIdle == DateIdle /\ RangedIdle /\ ZoneIdle /\ InstantIdle

NoEnded == [panic |-> FALSE, val |-> FALSE]

RecIdle ==
  /\ rec_init = Recurrence_new(<<EpochDate, EpochDate>>, ZoneOffset_utc, Once)
  /\ rec_iter = NextNone
  /\ rec_out = <<>>
  /\ rec_pc = "none"
  /\ rec_win = NoInterval
  /\ rec_ret = 0
  /\ rec_now = EpochInstant
  /\ rec_ended = NoEnded

PbIdle ==
  /\ pb_buf = <<>>
  /\ pb_lexed = <<>>
  /\ pb_taken = <<>>
  /\ pb_prev = [op |-> "none"]
  /\ pb_last = [op |-> "none"]

\* no parse has been called
CalIdle ==
  /\ par_vevents = <<>>
  /\ par_cal = [ok |-> FALSE, panic |-> FALSE]
  /\ par_next = <<>>
  /\ par_first = [ok |-> FALSE, panic |-> FALSE]

ParIdle ==
  /\ par_pc = "none"
  /\ par_locals = [dtstart |-> None]
  /\ par_ret = [ok |-> FALSE]
  /\ par_str = <<>>
  /\ par_acc = [freq |-> "none"]
  /\ par_rec = [ok |-> FALSE, panic |-> FALSE]
  /\ CalIdle

IcsIdle ==
  /\ lex_input = <<>>
  /\ lex_stream = <<>>
  /\ lex_out = <<>>
  /\ PbIdle
  /\ ParIdle

NamesIdle == nm_map = <<>> /\ nm_res = [op |-> "none"]

RestIdle == RecIdle /\ IcsIdle /\ NamesIdle

-----------------------------------------------------------------------------
(* Conversions between Date and MinInstant, and the queries on a Date *)

\* a caller holds a MinInstant
InitFromInstant(i) ==
  /\ mi = i
  /\ date = EpochDate
  /\ origin = [kind |-> "mi", mi |-> i, date |-> EpochDate]

\* a caller holds a Date
InitFromDate(d) ==
  /\ date = d
  /\ mi = EpochInstant
  /\ origin = [kind |-> "date", mi |-> EpochInstant, date |-> d]

InitDate ==
  /\ \/ \E i \in InstantSample : InitFromInstant(i)
     \/ \E d \in DateSample : InitFromDate(d)
  /\ chain = <<>>
  /\ out = NoOut
  /\ RangedIdle
  /\ ZoneIdle
  /\ InstantIdle
  /\ RestIdle

HoldsInstant ==
  IF chain = <<>> THEN origin.kind = "mi" ELSE chain[Len(chain)] = "from_date"

HoldsDate ==
  IF chain = <<>> THEN origin.kind = "date"
  ELSE chain[Len(chain)] = "from_min_instant"

\* date = Date::from_min_instant(mi)
DateFromMinInstant ==
  /\ HoldsInstant
  /\ Len(chain) < MaxChain
  /\ LET r == Date_from_min_instant(mi) IN
     IF r.ok
       THEN /\ date' = r.val
            /\ chain' = Append(chain, "from_min_instant")
       ELSE /\ date' = date
            /\ chain' = Append(chain, "panic")
  /\ out' = NoOut
  /\ UNCHANGED <<mi, origin>>

\* mi = MinInstant::from_date(&date)?
MinInstantFromDate ==
  /\ HoldsDate
  /\ Len(chain) < MaxChain
  /\ LET r == MinInstant_from_date(date) IN
     IF r.ok
       THEN /\ mi' = r.val
            /\ chain' = Append(chain, "from_date")
       ELSE /\ mi' = mi
            /\ chain' = Append(chain, r.err)
  /\ out' = NoOut
  /\ UNCHANGED <<date, origin>>

\* Weekday::from(date)
WeekdayFromDate ==
  /\ HoldsDate
  /\ out.op = "none"
  /\ LET r == Weekday_from(date) IN
     out' = [op |-> "weekday", arg |-> date,
             val |-> IF r.ok THEN r.val ELSE "panic"]
  /\ UNCHANGED <<mi, date, origin, chain>>

\* date.mon.num_days(&date.yr)
MonthNumDays ==
  /\ HoldsDate
  /\ out.op = "none"
  /\ out' = [op |-> "num_days", arg |-> date,
             val |-> Month_num_days(date.mon, date.yr)]
  /\ UNCHANGED <<mi, date, origin, chain>>

NextDate ==
  /\ \/ DateFromMinInstant
     \/ MinInstantFromDate
     \/ WeekdayFromDate
     \/ MonthNumDays
  /\ UNCHANGED <<rangedVars, zoneVars, instVars, restVars>>

SpecDate == InitDate /\ [][NextDate]_vars

-----------------------------------------------------------------------------
(* C1..C4 *)

\* C1: MinInstant -> Date -> MinInstant is exact: for every in-range instant
\* mi, from_date(from_min_instant(mi)) succeeds and gives back the same raw
\* count and the same offset.
C1_InstantRoundTrip ==
  (origin.kind = "mi" /\ Len(chain) >= 1) =>
    /\ chain[1] = "from_min_instant"
    /\ Len(chain) >= 2 =>
         /\ chain[2] = "from_date"
         /\ mi.raw = origin.mi.raw
         /\ mi.offset = origin.mi.offset

\* the round trip of the tests' instant, 2023/Jan/21 21:11, through its Date
C1_Witness ==
  /\ origin.kind = "mi"
  /\ origin.mi = MinInstant(27905591, 0)
  /\ chain = <<"from_min_instant", "from_date">>
  /\ date.mon = "Jan" /\ date.day = 21 /\ date.hr = 21 /\ date.min = 11

\* C2: Date -> MinInstant -> Date is exact: for every valid civil date d,
\* from_min_instant(from_date(d)) equals d field by field (so two different
\* valid civil dates never map to the same instant).
C2_DateRoundTrip ==
  (origin.kind = "date" /\ Len(chain) >= 1) =>
    /\ chain[1] = "from_date"
    /\ Len(chain) >= 2 =>
         /\ chain[2] = "from_min_instant"
         /\ date = origin.date

\* C3: Month::num_days is the civil day count of the month in that year.
C3_NumDaysCivil ==
  (out.op = "num_days" /\ IsCivilDate(out.arg)) =>
    out.val = CivilNumDays(out.arg.mon, out.arg.yr)

\* C4: Weekday::from(d) is the true weekday of a valid civil date d:
\* Thursday advanced by the civil days elapsed since 1970-01-01.
C4_WeekdayCivil ==
  (out.op = "weekday" /\ IsCivilDate(out.arg)) =>
    out.val = CivilWeekday(out.arg)

-----------------------------------------------------------------------------
(* RangedI64: values are made by new and try_new and stepped by increment *)

MaxRangedInput == 61

\* <MIN, MAX> of the doc example, of a minute of the hour, and of
\* cal_event::OneOrMore = LowerBoundI64<1>
RangedTypes == {<<1, 7>>, <<0, 59>>, <<1, I64_MAX>>}

RangedInputs == (-1..MaxRangedInput) \cup {I64_MAX - 1, I64_MAX}

\* what try_new is given: a number that converts to an i64, or one that
\* does not (a u64 above i64::MAX)
TryInputs ==
  {[fits |-> TRUE, n |-> k] : k \in RangedInputs}
    \cup {[fits |-> FALSE, n |-> I64_MAX]}

\* occurrence_count: OneOrMore::new(1).unwrap()
InitRanged ==
  /\ rv = RangedI64_new(1, I64_MAX, 1).val
  /\ res = NoRes
  /\ DateIdle
  /\ ZoneIdle
  /\ InstantIdle
  /\ RestIdle

\* rv = RangedI64::<MIN, MAX>::new(n)?
RangedNew ==
  \E T \in RangedTypes, n \in RangedInputs :
    /\ res' = [op |-> "new", recv |-> RangedI64(T[1], T[2], 0), arg |-> n,
               r |-> RangedI64_new(T[1], T[2], n)]
    /\ rv' = IF res'.r.ok THEN res'.r.val ELSE rv

\* rv = RangedI64::<MIN, MAX>::try_new(num)?
RangedTryNew ==
  \E T \in RangedTypes, num \in TryInputs :
    /\ res' = [op |-> "try_new", recv |-> RangedI64(T[1], T[2], 0),
               arg |-> num.n, r |-> RangedI64_try_new(T[1], T[2], num)]
    /\ rv' = IF res'.r.ok THEN res'.r.val ELSE rv

\* rv.increment(), the result kept aside
RangedIncrement ==
  /\ res' = [op |-> "increment", recv |-> rv, arg |-> 1,
             r |-> RangedI64_increment(rv)]
  /\ rv' = rv

\* rv = rv.increment_unwrap(), which panics on an error
RangedIncrementUnwrap ==
  /\ rv.raw < MaxRangedInput \/ rv.raw >= I64_MAX - 1
  /\ res' = [op |-> "increment_unwrap", recv |-> rv, arg |-> 1,
             r |-> RangedI64_increment(rv)]
  /\ rv' = IF res'.r.ok THEN res'.r.val ELSE rv

NextRanged ==
  /\ \/ RangedNew
     \/ RangedTryNew
     \/ RangedIncrement
     \/ RangedIncrementUnwrap
  /\ UNCHANGED <<dateVars, zoneVars, instVars, restVars>>

SpecRanged == InitRanged /\ [][NextRanged]_vars

\* C5: every RangedI64<MIN,MAX> obtained through new, try_new or increment
\* lies in [MIN,MAX]; new(n) is RangedI64Underflow(n,MIN,MAX) for n < MIN,
\* RangedI64Overflow(n,MIN,MAX) for n > MAX and Ok(n) otherwise; increment
\* gives the value plus one while that is <= MAX and an error at MAX or when
\* the i64 addition overflows, and leaves the original value as it was.
C5_RangedInRange ==
  /\ rv.min <= rv.raw /\ rv.raw <= rv.max
  /\ res.r.ok =>
       /\ res.recv.min <= res.r.val.raw /\ res.r.val.raw <= res.recv.max
       /\ res.r.val.min = res.recv.min /\ res.r.val.max = res.recv.max
  /\ res.op = "new" =>
       res.r = IF res.arg < res.recv.min
                 THEN [ok |-> FALSE,
                       err |-> [kind |-> "RangedI64Underflow", a |-> res.arg,
                                b |-> res.recv.min, c |-> res.recv.max]]
               ELSE IF res.arg > res.recv.max
                 THEN [ok |-> FALSE,
                       err |-> [kind |-> "RangedI64Overflow", a |-> res.arg,
                                b |-> res.recv.min, c |-> res.recv.max]]
               ELSE [ok |-> TRUE,
                     val |-> [min |-> res.recv.min, max |-> res.recv.max,
                              raw |-> res.arg]]
  /\ res.op \in {"increment", "increment_unwrap"} =>
       IF res.recv.raw < res.recv.max
         THEN res.r.ok /\ res.r.val.raw = res.recv.raw + 1
         ELSE ~res.r.ok /\ rv = res.recv
  /\ res.op = "increment" => rv = res.recv

\* C5 witness: increment of a OneOrMore holding i64::MAX is the arithmetic
\* error, and the value is still i64::MAX
C5_Witness ==
  /\ res.op = "increment"
  /\ res.recv = [min |-> 1, max |-> I64_MAX, raw |-> I64_MAX]
  /\ ~res.r.ok
  /\ res.r.err.kind = "RangedI64ArithmeticError"
  /\ rv.raw = I64_MAX

-----------------------------------------------------------------------------
(* ZoneOffset: one constructor call on one argument *)

MaxStrLen == 5

MaxZoneInput == 850

ZoneAlphabet == {"+", "-", ":", "0", "1", "2", "4"}

\* a string whose hour field overflows MIN_IN_HR * hr_offset in u32
LongZoneStr == <<"+", "9", "9", "9", "9", "9", "9", "9", "9">>

ZoneStrSample ==
  UNION {[1..n -> ZoneAlphabet] : n \in 0..MaxStrLen} \cup {LongZoneStr}

\* -23333 is the value of test::construction_constraint
ZoneIntSample == (-MaxZoneInput..MaxZoneInput) \cup {-23333}

\* u32 values the overflowing sum may wrap to
WrapSample == {0, 840, 841, U32_MAX}

InitZone ==
  /\ \/ \E n \in ZoneIntSample : zarg = [kind |-> "int", n |-> n, s |-> <<>>]
     \/ \E s \in ZoneStrSample : zarg = [kind |-> "str", n |-> 0, s |-> s]
  /\ zres = NoZoneRes
  /\ overflow_checks \in BOOLEAN
  /\ inst_a = EpochInstant /\ inst_b = EpochInstant /\ inst_res = NoInstRes
  /\ miv_a = NoInterval /\ miv_b = NoInterval /\ miv_res = NoMivRes
  /\ DateIdle
  /\ RangedIdle
  /\ RestIdle

\* ZoneOffset::new(n)
ZoneOffsetNew ==
  /\ zarg.kind = "int"
  /\ ~zres.done
  /\ zres' = [done |-> TRUE, r |-> ZoneOffset_new(zarg.n)]
  /\ zarg' = zarg

\* s.parse::<ZoneOffset>()
ZoneOffsetFromStr ==
  /\ zarg.kind = "str"
  /\ ~zres.done
  /\ \E w \in WrapSample :
       zres' = [done |-> TRUE,
                r |-> ZoneOffset_from_str(zarg.s, overflow_checks, w)]
  /\ zarg' = zarg

NextZone ==
  /\ \/ ZoneOffsetNew
     \/ ZoneOffsetFromStr
  /\ UNCHANGED <<dateVars, rangedVars, instVars, restVars>>

SpecZone == InitZone /\ [][NextZone]_vars

\* C6: ZoneOffset::new(n) succeeds exactly when -720 <= n <= 840 and is an
\* error for every other n, so neither new nor parsing a string ever
\* constructs a ZoneOffset outside that range.
C6_ZoneOffsetRange ==
  zres.done =>
    /\ zarg.kind = "int" =>
         /\ zres.r.ok <=> (-720 <= zarg.n /\ zarg.n <= 840)
         /\ zres.r.ok => zres.r.val = zarg.n
    /\ zres.r.ok => (-720 <= zres.r.val /\ zres.r.val <= 840)

\* C6 witness: "+14:0" parses to the largest legal offset
C6_Witness ==
  /\ zres.done
  /\ zarg.kind = "str"
  /\ zarg.s = <<"+", "1", "4", ":", "0">>
  /\ zres.r.ok
  /\ zres.r.val = 840

-----------------------------------------------------------------------------
(* MinInstant: two instants made by the public constructors, re-zoned and *)
(* compared.  A panic ends the run.                                       *)

MaxAdvanced == 60

InstRawSample ==
  {MINUTE_LOWERBOUND - 1, MINUTE_LOWERBOUND, 5000, MINUTE_UPPERBOUND,
   MINUTE_UPPERBOUND + 1}

\* 1970/Jan/1 00:00 at +01:00, and 1970/Jan/4 11:20 (raw 5000) at utc
InstDateSample ==
  {[yr |-> 1970, mon |-> "Jan", day |-> 1, hr |-> 0, min |-> 0, tz |-> 60],
   [yr |-> 1970, mon |-> "Jan", day |-> 4, hr |-> 11, min |-> 20,
    tz |-> ZoneOffset_utc]}

\* the system clock, in minutes
NowSample == {MINUTE_LOWERBOUND - 1, 5000}

AdvanceSample == {MaxAdvanced, U32_MAX}

InstResult(op, x, y, tz, r) ==
  [op |-> op, x |-> x, y |-> y, tz |-> tz, val |-> r.val,
   overflow |-> r.overflow, panic |-> r.panic]

InitInstant ==
  /\ overflow_checks \in BOOLEAN
  /\ inst_a = MinInstant_from_raw_utc(MINUTE_LOWERBOUND).val
  /\ inst_b = MinInstant_from_raw_utc(MINUTE_LOWERBOUND).val
  /\ inst_res = NoInstRes
  /\ miv_a = NoInterval /\ miv_b = NoInterval /\ miv_res = NoMivRes
  /\ DateIdle
  /\ RangedIdle
  /\ RestIdle
  /\ ZoneIdle

\* inst_a = MinInstant::from_raw_utc(raw)?
InstFromRawUtc ==
  /\ ~inst_res.panic
  /\ \E raw \in InstRawSample :
       /\ MinInstant_from_raw_utc(raw).ok
       /\ inst_a' = MinInstant_from_raw_utc(raw).val
  /\ inst_res' = NoInstRes
  /\ UNCHANGED inst_b

\* inst_a = MinInstant::from_date(&d)?
InstFromDate ==
  /\ ~inst_res.panic
  /\ \E d \in InstDateSample :
       /\ MinInstant_from_date(d).ok
       /\ inst_a' = MinInstant_from_date(d).val
  /\ inst_res' = NoInstRes
  /\ UNCHANGED inst_b

\* inst_a = MinInstant::now(tz)
InstNow ==
  /\ ~inst_res.panic
  /\ \E t \in NowSample, tz \in ZoneSample :
       /\ inst_res' = InstResult("now", MinInstant(0, tz), inst_a, tz,
                                 MinInstant_now(t, tz, overflow_checks))
       /\ inst_a' = IF inst_res'.panic THEN inst_a ELSE inst_res'.val
  /\ UNCHANGED inst_b

\* inst_a = inst_a.advance(num_min)?
InstAdvance ==
  /\ ~inst_res.panic
  /\ \/ inst_a.raw <= MINUTE_LOWERBOUND + MaxAdvanced
     \/ inst_a.raw >= MINUTE_UPPERBOUND - MaxAdvanced
  /\ \E num_min \in AdvanceSample :
       /\ MinInstant_advance(inst_a, num_min).ok
       /\ inst_a' = MinInstant_advance(inst_a, num_min).val
  /\ inst_res' = NoInstRes
  /\ UNCHANGED inst_b

\* inst_a.adjust_to_zone(tz)
InstAdjustToZone ==
  /\ ~inst_res.panic
  /\ \E tz \in ZoneSample :
       /\ inst_res' = InstResult("adjust_to_zone", inst_a, inst_a, tz,
            MinInstant_adjust_to_zone(inst_a, tz, overflow_checks))
       /\ inst_a' = IF inst_res'.panic THEN inst_a ELSE inst_res'.val
  /\ UNCHANGED inst_b

\* inst_a = inst_a.normalize()
InstNormalize ==
  /\ ~inst_res.panic
  /\ inst_res' = InstResult("normalize", inst_a, inst_a, ZoneOffset_utc,
                            MinInstant_normalize(inst_a, overflow_checks))
  /\ inst_a' = IF inst_res'.panic THEN inst_a ELSE inst_res'.val
  /\ UNCHANGED inst_b

\* inst_b = inst_a (MinInstant is Copy)
InstCopy ==
  /\ ~inst_res.panic
  /\ inst_b' = inst_a
  /\ inst_res' = NoInstRes
  /\ UNCHANGED inst_a

\* inst_a == inst_b
InstEq ==
  /\ ~inst_res.panic
  /\ inst_res' = InstResult("eq", inst_a, inst_b, ZoneOffset_utc,
                            MinInstant_eq(inst_a, inst_b, overflow_checks))
  /\ UNCHANGED <<inst_a, inst_b>>

\* inst_a.cmp(&inst_b)
InstCmp ==
  /\ ~inst_res.panic
  /\ inst_res' = InstResult("cmp", inst_a, inst_b, ZoneOffset_utc,
         MinInstant_partial_cmp(inst_a, inst_b, overflow_checks))
  /\ UNCHANGED <<inst_a, inst_b>>

NextInstant ==
  /\ \/ InstFromRawUtc
     \/ InstFromDate
     \/ InstNow
     \/ InstAdvance
     \/ InstAdjustToZone
     \/ InstNormalize
     \/ InstCopy
     \/ InstEq
     \/ InstCmp
  /\ UNCHANGED <<overflow_checks, miv_a, miv_b, miv_res>>
  /\ UNCHANGED <<dateVars, rangedVars, zoneVars, restVars>>

SpecInstant == InitInstant /\ [][NextInstant]_vars

\* the instant x is earlier than, or the same as, the instant y, by their
\* minute counts in utc (raw - offset), written without leaving the integers
UtcEqual(x, y) == x.raw - y.raw = x.offset - y.offset

UtcBefore(x, y) == x.raw - y.raw < x.offset - y.offset

\* C7: two MinInstants compare equal exactly when raw - offset is the same
\* for both, ordering follows that value, and adjust_to_zone(tz) sets the
\* offset to tz and shifts raw by tz - old offset, so that the adjusted
\* instant compares equal to the original.
C7_EqOrdByUtc ==
  /\ inst_res.op = "eq" =>
       /\ ~inst_res.panic
       /\ inst_res.val <=> UtcEqual(inst_res.x, inst_res.y)
  /\ inst_res.op = "cmp" =>
       /\ ~inst_res.panic
       /\ inst_res.val = "Equal" <=> UtcEqual(inst_res.x, inst_res.y)
       /\ inst_res.val = "Less" <=> UtcBefore(inst_res.x, inst_res.y)
  /\ inst_res.op = "adjust_to_zone" =>
       /\ ~inst_res.panic
       /\ inst_res.val.offset = inst_res.tz
       /\ inst_res.val.raw - inst_res.x.raw = inst_res.tz - inst_res.x.offset
       /\ MinInstant_eq(inst_res.val, inst_res.x, overflow_checks)
            = [val |-> TRUE, overflow |-> FALSE, panic |-> FALSE]

\* the raw count leaves room for the largest offset shift in either direction
InBounds(x) ==
  /\ x.raw >= MINUTE_LOWERBOUND + x.offset
  /\ x.raw <= MINUTE_UPPERBOUND + x.offset

\* C8: for every MinInstant made by from_raw_utc, from_date, advance and now
\* and every legal ZoneOffset, adjust_to_zone, normalize and the comparisons
\* never overflow or underflow the u32 raw count, which stays within the
\* bounds that leave room for the largest legal offset shift.
C8_NoRawOverflow ==
  /\ ~inst_res.overflow
  /\ InBounds(inst_a)
  /\ InBounds(inst_b)

-----------------------------------------------------------------------------
(* MinInterval: two intervals between instants the constructors make, and *)
(* one duration query on them                                             *)

MivClockSample == {1000, 1040, 1100}

MivZoneSample == {ZoneOffset_utc, 60}

\* the system clock of from_now_till, in minutes
MivNowSample == {1040, 5000}

\* 1970/Jan/1 00:00 and 01:40 at +01:00
MivDateSample ==
  {[yr |-> 1970, mon |-> "Jan", day |-> 1, hr |-> h, min |-> m, tz |-> 60] :
     <<h, m>> \in {<<0, 0>>, <<1, 40>>}}

MivInstantSample ==
  {MinInstant_now(t, tz, TRUE).val : t \in MivClockSample, tz \in MivZoneSample}
    \cup {MinInstant_from_date(d).val : d \in MivDateSample}

MivResult(op, x, y, r, rev) ==
  [op |-> op, x |-> x, y |-> y, val |-> r.val, rev |-> rev,
   overflow |-> r.overflow, panic |-> r.panic]

InitInterval ==
  /\ overflow_checks \in BOOLEAN
  /\ \E s \in MivInstantSample, e \in MivInstantSample :
       miv_a = MinInterval_new(s, e)
  /\ \E s \in MivInstantSample, e \in MivInstantSample :
       miv_b = MinInterval_new(s, e)
  /\ miv_res = NoMivRes
  /\ inst_a = EpochInstant /\ inst_b = EpochInstant /\ inst_res = NoInstRes
  /\ DateIdle
  /\ RangedIdle
  /\ ZoneIdle
  /\ RestIdle

\* miv_a = MinInterval::from_now_till(miv_a.end), as calendar's impact does
MivFromNowTill ==
  /\ miv_res.op = "none"
  /\ \E t \in MivNowSample :
       miv_a' = MinInterval_from_now_till(miv_a.end, t, overflow_checks).val
  /\ UNCHANGED <<miv_b, miv_res>>

\* miv_a.num_min()
MivNumMin ==
  /\ miv_res.op = "none"
  /\ miv_res' = MivResult("num_min", miv_a, miv_a,
                          MinInterval_num_min(miv_a, overflow_checks), 0)
  /\ UNCHANGED <<miv_a, miv_b>>

\* miv_a.overlap_duration(miv_b), and miv_b.overlap_duration(miv_a)
MivOverlapDuration ==
  /\ miv_res.op = "none"
  /\ miv_res' = MivResult("overlap_duration", miv_a, miv_b,
         MinInterval_overlap_duration(miv_a, miv_b, overflow_checks),
         MinInterval_overlap_duration(miv_b, miv_a, overflow_checks).val)
  /\ UNCHANGED <<miv_a, miv_b>>

NextInterval ==
  /\ \/ MivFromNowTill
     \/ MivNumMin
     \/ MivOverlapDuration
  /\ UNCHANGED <<overflow_checks, inst_a, inst_b, inst_res>>
  /\ UNCHANGED <<dateVars, rangedVars, zoneVars, restVars>>

SpecInterval == InitInterval /\ [][NextInterval]_vars

\* the minute count of an instant in utc
UtcOf(x) == x.raw - x.offset

MaxOf(m, n) == IF m >= n THEN m ELSE n

MinOf(m, n) == IF m <= n THEN m ELSE n

\* start is at or after end
NotPositive(miv) == UtcOf(miv.start) >= UtcOf(miv.end)

\* both ends of the interval are within the bounds of MinInstant
WithinBounds(miv) == InBounds(miv.start) /\ InBounds(miv.end)

\* C9: for a MinInterval whose start is after its end, and for a degenerate
\* one (start = end), every duration operation gives zero and not an error,
\* an underflow or a wrapped value: num_min() is 0 and overlap_duration with
\* any interval is 0.  Stated for the intervals whose instants are within
\* the bounds of MinInstant, where normalizing cannot overflow and the
\* answer is that of the duration operation alone.
C9_NegativeIsZero ==
  /\ (/\ miv_res.op = "num_min"
      /\ WithinBounds(miv_res.x)
      /\ NotPositive(miv_res.x)) =>
       ~miv_res.panic /\ ~miv_res.overflow /\ miv_res.val = 0
  /\ (/\ miv_res.op = "overlap_duration"
      /\ WithinBounds(miv_res.x) /\ WithinBounds(miv_res.y)
      /\ NotPositive(miv_res.x) \/ NotPositive(miv_res.y)) =>
       ~miv_res.panic /\ ~miv_res.overflow /\ miv_res.val = 0

\* C10: a.overlap_duration(b) is max(0, min(a.end, b.end) - max(a.start,
\* b.start)) over the utc minute counts, and is the same as
\* b.overlap_duration(a), whatever offsets the four instants carry.
C10_OverlapFormula ==
  miv_res.op = "overlap_duration" =>
    /\ ~miv_res.panic
    /\ miv_res.val =
         MaxOf(0, MinOf(UtcOf(miv_res.x.end), UtcOf(miv_res.y.end))
                    - MaxOf(UtcOf(miv_res.x.start), UtcOf(miv_res.y.start)))
    /\ miv_res.val = miv_res.rev

-----------------------------------------------------------------------------
(* Recurrence: a fresh Recurrence is iterated to exhaustion through the    *)
(* RecIter of into_iter()                                                  *)

MaxYield == 4

MaxCount == 3

RecDate(day, hr, mn, tz) ==
  [yr |-> 1970, mon |-> "Jan", day |-> day, hr |-> hr, min |-> mn, tz |-> tz]

\* -240 is the zone of test::rec_overlap
RecZoneSample == {ZoneOffset_utc, -240}

\* Monday 5 and Tuesday 6 January 1970, 10:00 - 11:00
RecStartSample(tz) ==
  {<<RecDate(day, 10, 0, tz), RecDate(day, 11, 0, tz)>> : day \in {5, 6}}

\* [MO, WE, FR] is the property of the tests; the last one is always()
RecDpSample ==
  {{"MO", "WE", "FR"}, {"TU"}, {"SU"},
   {"MO", "TU", "WE", "TH", "FR", "SA", "SU"}}

RecUntilSample(tz) ==
  {RecDate(7, 10, 0, tz), RecDate(7, 9, 59, tz), RecDate(7, 14, 0, ZoneOffset_utc),
   RecDate(13, 10, 0, tz)}

RecTermSample(tz) ==
  {Count(OneOrMore(n).val) : n \in 1..MaxCount}
    \cup {Until(u) : u \in RecUntilSample(tz)}
    \cup {Never}

RecPatternSample(tz) ==
  {Once} \cup {Many(dp, OneOrMore(iv).val, term) :
                 dp \in RecDpSample, iv \in {1, 2}, term \in RecTermSample(tz)}

RecSample ==
  UNION {{Recurrence_new(iv, tz, patt) :
            iv \in RecStartSample(tz), patt \in RecPatternSample(tz)} :
         tz \in RecZoneSample}

\* let mut it = r.into_iter()
InitRec ==
  /\ rec_init \in RecSample
  /\ rec_iter = NextSome(rec_init)
  /\ rec_out = <<>>
  /\ rec_pc = "iter"
  /\ rec_win = NoInterval
  /\ rec_ret = 0
  /\ rec_now = EpochInstant
  /\ rec_ended = NoEnded
  /\ CoreIdle /\ IcsIdle /\ NamesIdle

\* RecIter::next where self.rec is None: the iterator is exhausted
RecIterEnd ==
  /\ rec_pc = "iter"
  /\ ~rec_iter.some
  /\ rec_pc' = "iter_done"
  /\ UNCHANGED <<rec_init, rec_iter, rec_out, rec_win, rec_ret, rec_now, rec_ended>>

\* RecIter::next where self.rec is Some: self.rec = old_rec.next(), and the
\* interval of the old date_iv is returned
RecIterNext ==
  /\ rec_pc = "iter"
  /\ rec_iter.some
  /\ Len(rec_out) < MaxYield
  /\ rec_iter' = Recurrence_next(rec_iter.val, overflow_checks)
  /\ IF rec_iter'.panic \/ ~MinInterval_from_dates(rec_iter.val.date_iv).ok
       THEN rec_pc' = "panic" /\ rec_out' = rec_out
       ELSE /\ rec_pc' = "iter"
            /\ rec_out' = Append(rec_out,
                 MinInterval_from_dates(rec_iter.val.date_iv).val)
  /\ UNCHANGED <<rec_init, rec_win, rec_ret, rec_now, rec_ended>>

NextRec ==
  /\ \/ RecIterEnd
     \/ RecIterNext
  /\ UNCHANGED <<coreVars, icsVars, nameVars>>

SpecRec == InitRec /\ [][NextRec]_vars

\* the minute count, in its own zone, of a date of January 1970
JanMinute(d) == ((d.day - 1) * 1440) + (d.hr * 60) + d.min

JanInterval(date_iv) ==
  [start |-> [raw |-> JanMinute(date_iv[1]), offset |-> date_iv[1].tz],
   end |-> [raw |-> JanMinute(date_iv[2]), offset |-> date_iv[2].tz]]

\* C11: iterating a fresh Recurrence to exhaustion yields exactly one
\* interval for Pattern::Once and exactly n for Many(_, _, Count(n)); the
\* first interval yielded is the initial interval, and next() is None
\* exactly when the occurrence index has reached n.
C11_IterationCount ==
  rec_pc \in {"iter", "iter_done", "panic"} =>
    /\ rec_pc # "panic"
    /\ Len(rec_out) >= 1 => rec_out[1] = JanInterval(rec_init.date_iv)
    /\ rec_pc = "iter_done" => Len(rec_out) >= 1
    /\ rec_init.patt.kind = "Once" =>
         /\ Len(rec_out) <= 1
         /\ Len(rec_out) = 1 => ~rec_iter.some
    /\ (rec_init.patt.kind = "Many" /\ rec_init.patt.term.kind = "Count") =>
         /\ Len(rec_out) <= rec_init.patt.term.n.raw
         /\ rec_pc = "iter_done" => Len(rec_out) = rec_init.patt.term.n.raw
         /\ Len(rec_out) >= 1 =>
              (rec_iter.some <=> Len(rec_out) < rec_init.patt.term.n.raw)

\* C11 witness: a Mon/Wed/Fri pattern with Count(3) is exhausted after three
\* intervals
C11_Witness ==
  /\ rec_pc = "iter_done"
  /\ rec_init.patt.kind = "Many"
  /\ rec_init.patt.dp = {"MO", "WE", "FR"}
  /\ rec_init.patt.term.kind = "Count"
  /\ rec_init.patt.term.n.raw = 3
  /\ Len(rec_out) = 3

\* the intervals a RecIter made of r yields, up to k of them
RECURSIVE Occurrences(_, _)
Occurrences(r, k) ==
  IF k = 0 THEN <<>>
  ELSE <<MinInterval_from_dates(r.date_iv).val>>
         \o (IF Recurrence_next(r, overflow_checks).some
               THEN Occurrences(Recurrence_next(r, overflow_checks).val, k - 1)
             ELSE <<>>)

\* r with the repeat interval n
WithInterval(r, n) == [r EXCEPT !.patt.iv = OneOrMore(n).val]

\* the repeat intervals compared
MaxInterval == 3

\* an RRULE with no clause but INTERVAL=n, as rrules() returns it
IntervalRule(n) == Some(FreqAndRRules("DAILY", <<>>, n, None, None))

WeekdayOfMinute(m) == WEEKDAY_LIST[(((m \div 1440) + 3) % 7) + 1]

\* whole days from the minute count raw to the first later day in dp
DaysToNextMatch(raw, dp) ==
  CHOOSE k \in 1..7 :
    /\ WeekdayOfMinute(raw + (k * 1440)) \in dp
    /\ \A j \in 1..(k - 1) : WeekdayOfMinute(raw + (j * 1440)) \notin dp

\* the utc minute count of the date of Term::Until
UntilMinute(term) == JanMinute(term.until) - term.until.tz

IsUntilPattern(r) == r.patt.kind = "Many" /\ r.patt.term.kind = "Until"

\* C12: for Many(dp, _, Until(u)), next() gives the earliest candidate a
\* whole number of days (at least one) after the current occurrence whose
\* start date satisfies dp if that candidate starts at or before u (a start
\* equal to u included) and None if it starts after u; no occurrence after
\* the first starts later than u.
C12_UntilBound ==
  (rec_pc \in {"iter", "iter_done", "panic"} /\ IsUntilPattern(rec_init)) =>
    /\ rec_pc # "panic"
    /\ \A i \in 1..(Len(rec_out) - 1) :
         /\ rec_out[i + 1].start.raw =
              rec_out[i].start.raw
                + (1440 * DaysToNextMatch(rec_out[i].start.raw,
                                          rec_init.patt.dp))
         /\ UtcOf(rec_out[i + 1].start) <= UntilMinute(rec_init.patt.term)
    /\ (Len(rec_out) >= 1 /\ ~rec_iter.some) =>
         UtcOf(rec_out[Len(rec_out)].start)
           + (1440 * DaysToNextMatch(rec_out[Len(rec_out)].start.raw,
                                     rec_init.patt.dp))
           > UntilMinute(rec_init.patt.term)
    /\ (Len(rec_out) >= 1 /\ rec_iter.some) =>
         UtcOf(rec_out[Len(rec_out)].start)
           + (1440 * DaysToNextMatch(rec_out[Len(rec_out)].start.raw,
                                     rec_init.patt.dp))
           <= UntilMinute(rec_init.patt.term)

\* C12 witness: Monday 10:00, Mon/Wed/Fri until Wednesday 10:00: the second
\* occurrence starts exactly at the until date and is the last
C12_Witness ==
  /\ rec_pc = "iter_done"
  /\ IsUntilPattern(rec_init)
  /\ rec_init.patt.dp = {"MO", "WE", "FR"}
  /\ Len(rec_out) = 2
  /\ UtcOf(rec_out[2].start) = UntilMinute(rec_init.patt.term)

\* C13: in one expansion of a Many whose predicate is a non-empty set of
\* weekdays, each occurrence of next() has start and end both exactly
\* k * 1440 minutes after the previous one's for some k in 1..7 and a start
\* date that satisfies the predicate; starts strictly increase, duration and
\* time of day do not change, and the occurrence index grows by one a step.
C13_DayStepping ==
  (rec_pc \in {"iter", "iter_done", "panic"} /\ rec_init.patt.kind = "Many") =>
    /\ rec_pc # "panic"
    /\ \A i \in 1..(Len(rec_out) - 1) :
         /\ \E k \in 1..7 :
              /\ rec_out[i + 1].start.raw - rec_out[i].start.raw = k * 1440
              /\ rec_out[i + 1].end.raw - rec_out[i].end.raw = k * 1440
         /\ rec_out[i + 1].start.offset = rec_out[i].start.offset
         /\ rec_out[i + 1].end.offset = rec_out[i].end.offset
         /\ WeekdayOfMinute(rec_out[i + 1].start.raw) \in rec_init.patt.dp
         /\ UtcOf(rec_out[i + 1].start) > UtcOf(rec_out[i].start)
    /\ rec_iter.some => rec_iter.val.occurrence_count.raw = Len(rec_out) + 1

\* C13 witness: Monday 10:00 - 11:00 repeated on Sundays: the second
\* occurrence is six days after the first and the third seven days later
C13_Witness ==
  /\ rec_init.patt.kind = "Many"
  /\ rec_init.patt.dp = {"SU"}
  /\ Len(rec_out) = 3
  /\ rec_out[2].start.raw - rec_out[1].start.raw = 6 * 1440
  /\ rec_out[3].end.raw - rec_out[2].end.raw = 7 * 1440
  /\ rec_iter.some /\ rec_iter.val.occurrence_count.raw = 4

-----------------------------------------------------------------------------
(* SpecRecQuery: Recurrence::overlap, one turn of its loop a step, and      *)
(* Recurrence::ended                                                       *)

\* occurrences the expansion is compared over
MaxExpansion == 12

\* a minute of January 1970 in utc
JanUtc(day, hr, mn) ==
  MinInstant_from_raw_utc((((day - 1) * 1440) + (hr * 60)) + mn).val

\* windows around the occurrences of RecSample; the fourth ends before it
\* starts, the last one is in the zone of test::rec_overlap
RecWindowSample ==
  {MinInterval_new(JanUtc(5, 10, 30), JanUtc(7, 10, 30)),
   MinInterval_new(JanUtc(6, 0, 0), JanUtc(12, 0, 0)),
   MinInterval_new(JanUtc(2, 0, 0), JanUtc(3, 0, 0)),
   MinInterval_new(JanUtc(9, 0, 0), JanUtc(6, 0, 0)),
   MinInterval_new(MinInstant(JanUtc(7, 10, 20).raw, -240),
                   MinInstant(JanUtc(9, 10, 40).raw, -240))}

\* 2765 weeks
FixtureShift == 2765 * (7 * MIN_IN_DAY)

\* test::rec_overlap: 2023/01/18 10:00 - 12:00 at -240 on Mon / Wed / Fri.
\* Both raw values of the test are taken 2765 whole weeks (27871200 minutes)
\* earlier, to 1970/01/21 and 1970/04/26: the weekdays, the times of day, the
\* zone and the days between the two are those of the test, and 1970 has
\* no leap day either
FixtureRec ==
  Recurrence_new(
    MinInterval_to_dates(
      MinInterval_new(MinInstant_from_raw_utc(27900600 - FixtureShift).val,
                      MinInstant_advance(
                        MinInstant_from_raw_utc(27900600 - FixtureShift).val, 120).val),
      -240, TRUE),
    -240, Many({"MO", "WE", "FR"}, OneOrMore(1).val, Never))

\* test::rec_overlap: 2023/04/23 23:02 - 04/28 11:02, the same weeks earlier
FixtureWindow ==
  MinInterval_new(MinInstant_from_raw_utc(28038182 - FixtureShift).val,
                  MinInstant_advance(MinInstant_from_raw_utc(28038182 - FixtureShift).val,
                                     (MIN_IN_DAY * 5) - 720).val)

\* the clock around the ends of the occurrences of RecSample
RecNowSample ==
  {ended_now(t) : t \in {JanUtc(5, 10, 59).raw, JanUtc(5, 11, 0).raw,
                         JanUtc(5, 11, 1).raw, JanUtc(5, 15, 0).raw,
                         JanUtc(6, 15, 1).raw, JanUtc(7, 11, 0).raw,
                         JanUtc(9, 15, 0).raw, JanUtc(11, 11, 1).raw,
                         JanUtc(20, 0, 0).raw}}

InitRecQuery ==
  /\ \/ /\ rec_pc = "overlap"
        /\ \/ rec_init \in RecSample /\ rec_win \in RecWindowSample
           \/ rec_init = FixtureRec /\ rec_win = FixtureWindow
        /\ rec_now = EpochInstant
     \/ /\ rec_pc = "ended"
        /\ rec_init \in RecSample
        /\ rec_win = NoInterval
        /\ rec_now \in RecNowSample
  /\ rec_iter = NextSome(rec_init)
  /\ rec_out = <<>>
  /\ rec_ret = 0
  /\ rec_ended = NoEnded
  /\ CoreIdle /\ IcsIdle /\ NamesIdle

\* overlap(): the iterator is exhausted, ret is returned
RecOverlapEnd ==
  /\ rec_pc = "overlap"
  /\ ~rec_iter.some
  /\ rec_pc' = "overlap_done"
  /\ UNCHANGED <<rec_init, rec_iter, rec_out, rec_win, rec_ret, rec_now,
                 rec_ended>>

\* overlap(): RecIter::next gives rec_miv, then one turn of the loop 'a
RecOverlapStep ==
  /\ rec_pc = "overlap"
  /\ rec_iter.some
  /\ rec_iter' = Recurrence_next(rec_iter.val, overflow_checks)
  /\ IF rec_iter'.panic \/ ~MinInterval_from_dates(rec_iter.val.date_iv).ok
       THEN rec_pc' = "panic" /\ UNCHANGED <<rec_out, rec_ret>>
       ELSE /\ rec_out' = Append(rec_out,
                 MinInterval_from_dates(rec_iter.val.date_iv).val)
            /\ IF overlap_skips(rec_out'[Len(rec_out')], rec_win,
                                overflow_checks)
                 THEN rec_pc' = "overlap" /\ rec_ret' = rec_ret
               ELSE IF overlap_breaks(rec_out'[Len(rec_out')], rec_win,
                                      overflow_checks)
                 THEN rec_pc' = "overlap_done" /\ rec_ret' = rec_ret
               ELSE IF overlap_add(rec_ret, rec_out'[Len(rec_out')], rec_win,
                                   overflow_checks).some
                 THEN /\ rec_pc' = "overlap"
                      /\ rec_ret' = overlap_add(rec_ret,
                           rec_out'[Len(rec_out')], rec_win,
                           overflow_checks).val
               ELSE rec_pc' = "panic" /\ rec_ret' = rec_ret
  /\ UNCHANGED <<rec_init, rec_win, rec_now, rec_ended>>

\* ended(&self) with the clock at rec_now
RecEnded ==
  /\ rec_pc = "ended"
  /\ rec_ended' = Recurrence_ended(rec_init, rec_now, overflow_checks)
  /\ rec_pc' = IF rec_ended'.panic THEN "panic" ELSE "ended_done"
  /\ UNCHANGED <<rec_init, rec_iter, rec_out, rec_win, rec_ret, rec_now>>

NextRecQuery ==
  /\ \/ RecOverlapEnd
     \/ RecOverlapStep
     \/ RecEnded
  /\ UNCHANGED <<coreVars, icsVars, nameVars>>

SpecRecQuery == InitRecQuery /\ [][NextRecQuery]_vars

\* the first fuel occurrences of the expansion of rec
RECURSIVE Expansion(_, _)
Expansion(rec, fuel) ==
  IF fuel = 0 \/ ~rec.some THEN <<>>
  ELSE <<MinInterval_from_dates(rec.val.date_iv).val>>
         \o Expansion(Recurrence_next(rec.val, TRUE), fuel - 1)

\* the sum of overlap_duration(occ, w) over the occurrences of a sequence
RECURSIVE SumOverlap(_, _)
SumOverlap(occs, w) ==
  IF occs = <<>> THEN 0
  ELSE MinInterval_overlap_duration(Head(occs), w, TRUE).val
         + SumOverlap(Tail(occs), w)

IsFixture == rec_init = FixtureRec /\ rec_win = FixtureWindow

\* C14: overlap(w) is the sum of overlap_duration(occ, w) over all the
\* occurrences of the expansion: an occurrence that is skipped (end <=
\* w.start) and those left out by stopping (start >= w.end) have no overlap
\* with w; it returns after finitely many occurrences, also for Never (302
\* for the Mon/Wed/Fri fixture of test::rec_overlap).
C14_OverlapIsSum ==
  (rec_pc \in {"overlap", "overlap_done", "panic"} /\ rec_win # NoInterval) =>
    /\ rec_pc # "panic"
    /\ rec_ret = SumOverlap(rec_out, rec_win)
    /\ \A i \in 1..(Len(rec_out) - 1) :
         \/ UtcOf(rec_out[i].end) <= UtcOf(rec_win.start)
         \/ UtcOf(rec_out[i].start) < UtcOf(rec_win.end)
    /\ (rec_pc = "overlap_done" /\ ~IsFixture) =>
         rec_ret = SumOverlap(Expansion(NextSome(rec_init), MaxExpansion),
                              rec_win)
    /\ (rec_pc = "overlap_done" /\ IsFixture) => rec_ret = 302

\* C14 witness: the fixture of test::rec_overlap has returned 302
C14_Witness ==
  /\ rec_pc = "overlap_done"
  /\ IsFixture
  /\ rec_ret = 302
  /\ rec_iter.some

\* no occurrence of the expansion of rec_init ends at or after rec_now
AllEndBefore(now) ==
  \A i \in 1..Len(Expansion(NextSome(rec_init), MaxExpansion)) :
    UtcOf(Expansion(NextSome(rec_init), MaxExpansion)[i].end) < UtcOf(now)

\* what ended() returned, against the expansion and the later clocks
C15_EndedValue ==
  rec_pc \in {"ended", "ended_done", "panic"} =>
    /\ rec_pc # "panic"
    /\ rec_pc = "ended_done" =>
         /\ rec_init.patt.kind = "Once" =>
              (rec_ended.val <=>
                 UtcOf(JanInterval(rec_init.date_iv).end) < UtcOf(rec_now))
         /\ (rec_init.patt.kind = "Many"
               /\ rec_init.patt.term.kind = "Never") => ~rec_ended.val
         /\ (rec_init.patt.kind = "Many"
               /\ rec_init.patt.term.kind # "Never") =>
              (rec_ended.val <=> AllEndBefore(rec_now))
         /\ \A later \in RecNowSample :
              (UtcOf(rec_now) <= UtcOf(later) /\ rec_ended.val) =>
                Recurrence_ended(rec_init, later, overflow_checks).val

\* C15: ended() at the instant now is true for Once iff the end is strictly
\* before now, false for Never, and for Count and Until true iff no
\* occurrence of the expansion ends at or after now; once true it is true at
\* every later now; the receiver is not modified.
C15_Ended == []C15_EndedValue /\ [][rec_init' = rec_init]_vars

\* C15 witness: Count(2) on Mon/Wed/Fri from Monday 5 January 10:00 - 11:00,
\* asked exactly at the end of the second occurrence and one minute later
C15_Witness ==
  /\ rec_pc = "ended_done"
  /\ rec_init.patt.kind = "Many"
  /\ rec_init.patt.term.kind = "Count"
  /\ rec_now = JanUtc(7, 11, 0)
  /\ rec_init.tz = ZoneOffset_utc
  /\ UtcOf(JanInterval(rec_init.date_iv).end) = UtcOf(JanUtc(5, 11, 0))
  /\ rec_init.patt.dp = {"MO", "WE", "FR"}
  /\ rec_init.patt.term.n.raw = 2
  /\ ~rec_ended.val
  /\ Recurrence_ended(rec_init, JanUtc(11, 11, 1), overflow_checks).val

-----------------------------------------------------------------------------
(* SpecLex: IcsLexer::token called again and again on one text             *)

MaxTextLen == 4

MaxEofCalls == 2

\* letters of END, a lower-case letter, a letter outside ascii, a keyword
\* terminator, a space, a boring whitespace and a digit
LexAlphabet == {"E", "N", "D", "d", E_ACUTE, ":", " ", "\t", "1"}

TextSample == UNION {[1..n -> LexAlphabet] : n \in 0..MaxTextLen}

EofCalls == Cardinality({i \in 1..Len(lex_out) : ~lex_out[i].res.ok})

\* IcsLexer::new(name, content)
InitLex ==
  /\ lex_input \in TextSample
  /\ lex_stream = lex_input
  /\ lex_out = <<>>
  /\ PbIdle /\ ParIdle
  /\ CoreIdle /\ RecIdle /\ NamesIdle

\* one call of IcsLexer::token
LexToken ==
  /\ EofCalls < MaxEofCalls
  /\ lex_stream' = IcsLexer_token(lex_stream).stream
  /\ lex_out' = Append(lex_out, [before |-> lex_stream,
                                 res |-> IcsLexer_token(lex_stream).res,
                                 after |-> lex_stream'])
  /\ UNCHANGED lex_input

NextLex ==
  LexToken /\ UNCHANGED <<coreVars, recVars, pbVars, parVars, nameVars>>

SpecLex == InitLex /\ [][NextLex]_vars

\* the chars a keyword may be followed by
KeywordTerminators == {" ", "\t", "\n", "\r", ":", ";", "="}

Letters == ASCII_UPPER \cup ASCII_LOWER \cup {E_ACUTE}

\* text[a..b] is a maximal run of letters of the text
IsMaximalRun(text, a, b) ==
  /\ a <= b
  /\ \A j \in a..b : text[j] \in Letters
  /\ a = 1 \/ text[a - 1] \notin Letters
  /\ b = Len(text) \/ text[b + 1] \notin Letters

IsKeywordText(run) == \E kw \in KEYWORD_TABLE : kw[1] = run

\* the token the run text[a..b] is to become
RunToken(text, a, b) ==
  IF IsKeywordText(SubSeq(text, a, b))
       /\ (b = Len(text) \/ text[b + 1] \in KeywordTerminators)
    THEN Tok((CHOOSE kw \in KEYWORD_TABLE : kw[1] = SubSeq(text, a, b))[2])
    ELSE Other(SubSeq(text, a, b))

\* the positions of lex_input the i-th call classified: the first and last
CallFirst(i) ==
  (Len(lex_input) - Len(lex_out[i].before)) + 1
    + Cardinality({j \in 1..Len(lex_out[i].before) :
         \A l \in 1..j : lex_out[i].before[l] \in {"\t", "\r"}})

CallLast(i) == Len(lex_input) - Len(lex_out[i].after)

IsKeywordToken(t) == \E kw \in KEYWORD_TABLE : kw[2] = t.kind

\* C18: a maximal alphabetic run becomes a keyword token only if it is
\* exactly (case-sensitively) a keyword of the table and the char right
\* after it is whitespace, ':', ';', '=' or the end of input; in every other
\* case the run becomes Other(run): an identifier that starts with or
\* contains a keyword is never split into a keyword token.
C18_KeywordWholeRun ==
  /\ \A i \in 1..Len(lex_out) :
       (lex_out[i].res.ok /\ IsKeywordToken(lex_out[i].res.val)) =>
         /\ IsMaximalRun(lex_input, CallFirst(i), CallLast(i))
         /\ lex_out[i].res.val = RunToken(lex_input, CallFirst(i), CallLast(i))
  /\ \A a \in 1..Len(lex_input) : \A b \in a..Len(lex_input) :
       (IsMaximalRun(lex_input, a, b)
          /\ Len(lex_stream) <= Len(lex_input) - b) =>
         \E i \in 1..Len(lex_out) :
           /\ CallFirst(i) = a
           /\ CallLast(i) = b
           /\ lex_out[i].res = Ok(RunToken(lex_input, a, b))

\* the keyword half of C18 alone
C18_KeywordTokensAreRuns ==
  \A i \in 1..Len(lex_out) :
    (lex_out[i].res.ok /\ IsKeywordToken(lex_out[i].res.val)) =>
      IsMaximalRun(lex_input, CallFirst(i), CallLast(i))

\* C18 on texts of ascii letters only
C18_AsciiOnly ==
  (\A j \in 1..Len(lex_input) : lex_input[j] # E_ACUTE) => C18_KeywordWholeRun

\* C19: every call of token() returns a token after consuming at least one
\* char, or the EOF error when no char is left to classify; EOF comes after
\* at most as many calls as the text has chars, and every call after it
\* gives EOF again.
C19_TotalAndProgress ==
  \A i \in 1..Len(lex_out) :
    /\ lex_out[i].res.ok => Len(lex_out[i].after) < Len(lex_out[i].before)
    /\ ~lex_out[i].res.ok =>
         /\ lex_out[i].res = EOF
         /\ lex_out[i].after = <<>>
         /\ \A j \in 1..Len(lex_out[i].before) :
              lex_out[i].before[j] \in {"\t", "\r"}
    /\ (\E j \in 1..Len(lex_out[i].before) :
          lex_out[i].before[j] \notin {"\t", "\r"}) => lex_out[i].res.ok
    /\ i > Len(lex_input) => ~lex_out[i].res.ok
    /\ (i > 1 /\ ~lex_out[i - 1].res.ok) => ~lex_out[i].res.ok

\* C19 witness: a text that starts with a tab and holds a letter outside
\* ascii has been lexed to its end, and token() has given EOF twice
C19_Witness ==
  /\ Len(lex_out) >= 4
  /\ lex_input[1] = "\t"
  /\ \E j \in 1..Len(lex_input) : lex_input[j] = E_ACUTE
  /\ lex_input[Len(lex_input)] = "\t"
  /\ lex_out[1].res.ok
  /\ lex_out[Len(lex_out) - 1].res = EOF
  /\ lex_out[Len(lex_out)].res = EOF

-----------------------------------------------------------------------------
(* SpecPeek: peek(n) and token() called on one PeekBuffer in any order     *)

MaxPeek == 2

MaxPbTextLen == 3

MaxLexCalls == 5

\* texts of up to three tokens: a letter, a colon, a digit, and a tab that
\* is skipped
PbTextSample == UNION {[1..n -> {"D", ":", "1", "\t"}] : n \in 0..MaxPbTextLen}

NoCall ==
  [op |-> "none", n |-> 0, ret |-> EOF, calls |-> 0, len_before |-> 0,
   next_before |-> EOF]

\* PeekBuffer::from_lexer(IcsLexer::new(name, content))
InitPeek ==
  /\ lex_input \in PbTextSample
  /\ lex_stream = lex_input
  /\ lex_out = <<>>
  /\ pb_buf = <<>>
  /\ pb_lexed = <<>>
  /\ pb_taken = <<>>
  /\ pb_prev = NoCall
  /\ pb_last = NoCall
  /\ ParIdle
  /\ CoreIdle /\ RecIdle /\ NamesIdle

PbSelf == PeekBuffer(pb_buf, lex_stream, pb_lexed)

\* the record of a call that took self to c.self and returned c.ret
CallRecord(op, n, c) ==
  [op |-> op, n |-> n, ret |-> c.ret,
   calls |-> Len(c.self.lexed) - Len(pb_lexed),
   len_before |-> Len(pb_buf),
   next_before |-> PeekBuffer_token(PbSelf).ret]

PbPeek(n) ==
  /\ Len(PeekBuffer_peek(PbSelf, n).self.lexed) <= MaxLexCalls
  /\ pb_buf' = PeekBuffer_peek(PbSelf, n).self.buf
  /\ lex_stream' = PeekBuffer_peek(PbSelf, n).self.stream
  /\ pb_lexed' = PeekBuffer_peek(PbSelf, n).self.lexed
  /\ pb_prev' = pb_last
  /\ pb_last' = CallRecord("peek", n, PeekBuffer_peek(PbSelf, n))
  /\ UNCHANGED <<lex_input, lex_out, pb_taken>>

PbToken ==
  /\ Len(PeekBuffer_token(PbSelf).self.lexed) <= MaxLexCalls
  /\ pb_buf' = PeekBuffer_token(PbSelf).self.buf
  /\ lex_stream' = PeekBuffer_token(PbSelf).self.stream
  /\ pb_lexed' = PeekBuffer_token(PbSelf).self.lexed
  /\ pb_taken' = Append(pb_taken, PeekBuffer_token(PbSelf).ret)
  /\ pb_prev' = pb_last
  /\ pb_last' = CallRecord("token", 0, PeekBuffer_token(PbSelf))
  /\ UNCHANGED <<lex_input, lex_out>>

NextPeek ==
  /\ \/ \E n \in 0..MaxPeek : PbPeek(n)
     \/ PbToken
  /\ UNCHANGED <<coreVars, recVars, parVars, nameVars>>

SpecPeek == InitPeek /\ [][NextPeek]_vars

\* C16: peek(k) twice in a row returns the same result, the second call
\* does not invoke the lexer, and neither call changes what the next token()
\* returns; the first peek(k) invokes the lexer only as many times as are
\* needed to bring the queue to k + 1 entries.
C16_PeekIdempotent ==
  pb_last.op = "peek" =>
    /\ pb_last.calls = IF pb_last.len_before > pb_last.n THEN 0
                       ELSE (pb_last.n + 1) - pb_last.len_before
    /\ Len(pb_buf) = IF pb_last.len_before > pb_last.n
                       THEN pb_last.len_before ELSE pb_last.n + 1
    /\ PeekBuffer_token(PbSelf).ret = pb_last.next_before
    /\ (pb_prev.op = "peek" /\ pb_prev.n = pb_last.n) =>
         /\ pb_last.ret = pb_prev.ret
         /\ pb_last.calls = 0
         /\ PeekBuffer_token(PbSelf).ret = pb_prev.next_before

\* C16 witness: peek(2) on a fresh buffer over three tokens asked the lexer
\* three times, and peek(2) again gave the same token with no lexer call
C16_Witness ==
  /\ pb_prev.op = "peek" /\ pb_prev.n = 2
  /\ pb_prev.len_before = 0 /\ pb_prev.calls = 3
  /\ pb_last.op = "peek" /\ pb_last.n = 2
  /\ pb_last.calls = 0
  /\ pb_last.ret = pb_prev.ret
  /\ pb_last.ret.ok
  /\ pb_taken = <<>>

\* the first n results of a lexer made from the text
RECURSIVE LexResults(_, _)
LexResults(stream, n) ==
  IF n = 0 THEN <<>>
  ELSE <<IcsLexer_token(stream).res>>
         \o LexResults(IcsLexer_token(stream).stream, n - 1)

\* C17: for any interleaving of peek(k) and token(), the i-th token()
\* returns the i-th result of the lexer (none lost, duplicated or reordered,
\* EOF and other errors included), and peek(k) returns what the (k + 1)-th
\* token() after it will return.
C17_TokenStream ==
  /\ pb_taken = LexResults(lex_input, Len(pb_taken))
  /\ pb_taken \o pb_buf = pb_lexed
  /\ pb_lexed = LexResults(lex_input, Len(pb_lexed))
  /\ pb_last.op = "peek" =>
       pb_last.ret =
         LexResults(lex_input, Len(pb_taken) + pb_last.n + 1)
           [Len(pb_taken) + pb_last.n + 1]
  /\ pb_last.op = "token" => pb_last.ret = pb_taken[Len(pb_taken)]

\* C17 witness: after peek(1), token() and peek(0) on a text of at least two
\* tokens, a further token() returned the second result of the lexer; then
\* the text was used up and token() returned EOF
C17_Witness ==
  /\ Len(pb_taken) >= 3
  /\ pb_taken[1].ok /\ pb_taken[2].ok
  /\ pb_taken[1] # pb_taken[2]
  /\ pb_taken[Len(pb_taken)] = EOF
  /\ pb_last.op = "token"
  /\ pb_prev.op = "peek"

-----------------------------------------------------------------------------
(* SpecParse: ICSParser::vevent on the text of one VEVENT block, a turn of  *)
(* its loop a step                                                         *)

MaxLines == 3

\* the text of a keyword
Kw(k) == (CHOOSE kw \in KEYWORD_TABLE : kw[2] = k)[1]

\* DTSTART:19700105T100000Z
LineDtstart ==
  (Kw("DTSTART") \o <<":", "1", "9", "7", "0", "0", "1", "0", "5", "T">>)
    \o <<"1", "0", "0", "0", "0", "0", "Z", "\n">>

\* DTEND;TZID=x:19700105T110000
LineDtend ==
  ((Kw("DTEND") \o <<";">>) \o Kw("TZID"))
    \o <<"=", "x", ":", "1", "9", "7", "0", "0", "1", "0", "5", "T",
         "1", "1", "0", "0", "0", "0", "\n">>

\* SUMMARY:ab and the TRANSP line that ends it
LineSummary ==
  ((Kw("SUMMARY") \o <<":", "a", "b", "\n">>) \o Kw("TRANSP"))
    \o <<":", "x", "\n">>

\* SUMMARY:a with no TRANSP line after it
LineSummaryOpen == Kw("SUMMARY") \o <<":", "a", "\n">>

\* RRULE:FREQ=WEEKLY;COUNT=2;BYDAY=MO,WE
LineRrule ==
  ((((((Kw("RRULE") \o <<":">>) \o Kw("FREQ")) \o <<"=">>) \o Kw("WEEKLY"))
      \o <<";">>) \o Kw("COUNT"))
    \o (<<"=", "2", ";">> \o (Kw("BYDAY") \o <<"=", "M", "O", ",", "W", "E",
                                               "\n">>))

\* LOCATION:x
LineOther == Kw("LOCATION") \o <<":", "x", "\n">>

\* DTSTART:1970
LineBadDate == Kw("DTSTART") \o <<":", "1", "9", "7", "0", "\n">>

LinePool ==
  {LineDtstart, LineDtend, LineSummary, LineSummaryOpen, LineRrule,
   LineOther, LineBadDate}

\* END:VEVENT, END:VCALENDAR, or the text ends
BlockEndSample ==
  {(Kw("END") \o <<":">>) \o Kw("VEVENT"),
   (Kw("END") \o <<":">>) \o Kw("VCALENDAR"),
   <<>>}

RECURSIVE Concat(_)
Concat(lines) == IF lines = <<>> THEN <<>> ELSE Head(lines) \o Concat(Tail(lines))

VeventTextSample ==
  {(((Kw("BEGIN") \o <<":">>) \o Kw("VEVENT")) \o <<"\n">>)
     \o (Concat(lines) \o end) :
   lines \in UNION {[1..n -> LinePool] : n \in 0..MaxLines},
   end \in BlockEndSample}

NoParRet == [ok |-> FALSE, panic |-> FALSE, err |-> <<"none">>]

\* ICSParser::from_ics_lexer(IcsLexer::new(name, content)), vevent called
InitParse ==
  /\ lex_input \in VeventTextSample
  /\ lex_stream = lex_input
  /\ lex_out = <<>>
  /\ pb_buf = <<>>
  /\ pb_lexed = <<>>
  /\ pb_taken = <<>>
  /\ pb_prev = [op |-> "none"]
  /\ pb_last = [op |-> "none"]
  /\ par_pc = "vevent"
  /\ par_locals = NewVeventLocals
  /\ par_ret = NoParRet
  /\ par_str = <<>>
  /\ par_acc = [freq |-> "none"]
  /\ par_rec = [ok |-> FALSE, panic |-> FALSE]
  /\ CalIdle
  /\ CoreIdle /\ RecIdle /\ NamesIdle

\* the parser's PeekBuffer becomes self
ParBuffer(self) ==
  /\ pb_buf' = self.buf
  /\ lex_stream' = self.stream
  /\ pb_lexed' = self.lexed

\* vevent returns p
ParReturn(p) ==
  /\ par_pc' = IF p.panic THEN "panicked" ELSE "returned"
  /\ par_ret' = IF p.ok THEN [ok |-> TRUE, panic |-> FALSE, val |-> p.val]
                ELSE [ok |-> FALSE, panic |-> p.panic, err |-> p.err]

\* the state after the opening of vevent gave p
ParVeventBegan(p) ==
  /\ ParBuffer(p.self)
  /\ IF p.ok THEN par_pc' = "vevent_loop" /\ par_ret' = par_ret
     ELSE ParReturn(p)
  /\ par_locals' = NewVeventLocals
  /\ UNCHANGED <<lex_input, lex_out, pb_taken, pb_prev, pb_last, par_str,
                 par_acc, par_rec, calVars>>

\* vevent: the munches of BEGIN : VEVENT and the four locals
ParVeventBegin == par_pc = "vevent" /\ ParVeventBegan(vevent_begin(PbSelf))

\* the state after a turn of the loop of vevent
ParVeventTurned(turn) ==
  /\ ParBuffer(turn.self)
  /\ IF turn.returns
       THEN ParReturn(turn.ret) /\ par_locals' = par_locals
       ELSE /\ par_locals' = turn.locals
            /\ par_pc' = IF turn.scans THEN "string_until" ELSE "vevent_loop"
            /\ par_ret' = par_ret
  /\ par_str' = <<>>
  /\ UNCHANGED <<lex_input, lex_out, pb_taken, pb_prev, pb_last, par_acc,
                 par_rec, calVars>>

\* vevent: one turn of its loop; the SUMMARY arm stops where string_until
\* begins
ParVeventTurn ==
  /\ par_pc = "vevent_loop"
  /\ ParVeventTurned(vevent_turn(ICSParser_peek0(PbSelf), par_locals))

\* the state after a turn of the loop of string_until: the summary is
\* assigned when string_until returns
ParSummaryTurned(turn) ==
  IF turn.over THEN ParVeventTurned(vevent_set_summary(turn.p, par_locals))
  ELSE /\ ParBuffer(turn.self)
       /\ par_str' = turn.ret
       /\ UNCHANGED <<lex_input, lex_out, pb_taken, pb_prev, pb_last,
                      par_pc, par_locals, par_ret, par_acc, par_rec,
                      calVars>>

\* summary = self.string_until(not_in_summary)?: one turn of its loop
ParSummaryTurn ==
  /\ par_pc = "string_until"
  /\ ParSummaryTurned(string_until_turn(ICSParser_peek0(PbSelf),
                                        not_in_summary, par_str))

NextParse ==
  /\ \/ ParVeventBegin
     \/ ParVeventTurn
     \/ ParSummaryTurn
  /\ UNCHANGED <<coreVars, recVars, nameVars>>

SpecParse == InitParse /\ [][NextParse]_vars

\* the tokens the parser has taken from its buffer
Consumed == SubSeq(pb_lexed, 1, Len(pb_lexed) - Len(pb_buf))

\* vevent has returned, and the last it took was END : VEVENT
ReachedEndVevent ==
  /\ par_pc \in {"returned", "panicked"}
  /\ Len(Consumed) >= 3
  /\ SubSeq(Consumed, Len(Consumed) - 2, Len(Consumed))
       = <<Ok(Tok("END")), Ok(Tok("COLON")), Ok(Tok("VEVENT"))>>

SummarySeen == \E i \in 1..Len(Consumed) : Consumed[i] = Ok(Tok("SUMMARY"))

MissingMessage(name, what) ==
  ICSProcessError_Other((<<"VEVENT ", BACKQUOTE>> \o name)
                          \o <<BACKQUOTE, what>>)

\* the error of a block with no DTSTART or no DTEND, the event being named
\* name
MissingError(name) ==
  /\ par_pc = "returned"
  /\ ~par_ret.ok
  /\ par_ret.err \in {MissingMessage(name, " missing dtstart"),
                      MissingMessage(name, " missing dtend")}
  /\ (par_locals.dtstart.some /\ ~par_locals.dtend.some) =>
       par_ret.err = MissingMessage(name, " missing dtend")

\* C20: a VEVENT block that reaches END:VEVENT without a DTSTART or without
\* a DTEND makes the parser return an error, never an event or a panic,
\* whose message names the summary of the event, or "unnamed" if no SUMMARY
\* had been seen; with DTSTART present and DTEND absent it is the "missing
\* dtend" message.
C20_MissingDateError ==
  (ReachedEndVevent /\ (~par_locals.dtstart.some \/ ~par_locals.dtend.some))
    => MissingError(IF SummarySeen THEN par_locals.summary
                    ELSE <<"unnamed">>)

\* C20 with the name the code gives: the text of summary, empty if there
\* was no SUMMARY
C20_NamesSummaryText ==
  (ReachedEndVevent /\ (~par_locals.dtstart.some \/ ~par_locals.dtend.some))
    => MissingError(par_locals.summary)

\* a block with a DTSTART, no DTEND and no SUMMARY has reached END:VEVENT
C20_NoSummaryReached ==
  /\ ReachedEndVevent
  /\ par_locals.dtstart.some /\ ~par_locals.dtend.some
  /\ ~SummarySeen

-----------------------------------------------------------------------------
(* The RRULE line of an event: rrules turn by turn, then                   *)
(* Recurrence::from_ve of the event it belongs to.                         *)

MaxClauses == 3

\* ;TAG=text
Clause(tag, text) == ((<<";">> \o Kw(tag)) \o <<"=">>) \o text

UntilText ==
  <<"1", "9", "7", "0", "0", "1", "1", "0", "T", "0", "0", "0", "0", "0",
    "0", "Z">>

ClauseCount == Clause("COUNT", <<"2">>)

ClauseCountZero == Clause("COUNT", <<"0">>)

ClauseUntil == Clause("UNTIL", UntilText)

ClauseInterval == Clause("INTERVAL", <<"2">>)

ClauseIntervalZero == Clause("INTERVAL", <<"0">>)

ClauseByday == Clause("BYDAY", <<"M", "O", ",", "W", "E">>)

ClauseBydayLater == Clause("BYDAY", <<"W", "E", ",", "F", "R">>)

ClauseWkst == Clause("WKST", <<"M", "O">>)

\* the clauses an RRULE line is put together from
ClausePool ==
  {ClauseCount, ClauseCountZero, ClauseUntil, ClauseInterval,
   ClauseIntervalZero, ClauseByday, ClauseBydayLater, ClauseWkst}

UNSUPPORTED_BY ==
  {"BYMIN", "BYHOUR", "BYMONTHDAY", "BYYEARDAY", "BYWEEKNO", "BYMONTH",
   "BYSETPOS"}

\* an unsupported BYxxx rule alone, after a BYDAY rule and before one
UnsupportedSample ==
  UNION {{Clause(t, <<"1">>), ClauseByday \o Clause(t, <<"1">>),
          Clause(t, <<"1">>) \o ClauseByday} : t \in UNSUPPORTED_BY}

\* BYDAY lists with an item that is no weekday: 1MO, an empty item, an
\* empty list; and a rule whose tag is no keyword
BadItemSample ==
  {Clause("BYDAY", <<"1", "M", "O">>), Clause("BYDAY", <<"M", "O", ",", ",">>),
   Clause("BYDAY", <<>>), <<";", "X", "=", "1">>,
   ClauseCount \o Clause("BYDAY", <<"m", "o">>)}

\* clauses the parser itself rejects: a count that is no number, a rule
\* with no =, an until with no time zone mark
RejectedSample ==
  {Clause("COUNT", <<"x">>), (<<";">> \o Kw("BYDAY")) \o <<":">>,
   Clause("UNTIL", SubSeq(UntilText, 1, 15)),
   Clause("INTERVAL", <<"-", "1">>)}

FreqSample == {"DAILY", "WEEKLY", "MONTHLY", "YEARLY"}

\* RRULE:FREQ=f and the clauses, then the end of the line
RruleLine(f, clauses) ==
  ((((Kw("RRULE") \o <<":">>) \o Kw("FREQ")) \o <<"=">>) \o Kw(f))
    \o (clauses \o <<"\n">>)

RruleTextSample ==
  {RruleLine(f, Concat(cl)) :
     f \in FreqSample,
     cl \in UNION {[1..n -> ClausePool] : n \in 0..MaxClauses}}
    \cup {RruleLine(f, cl) :
            f \in FreqSample,
            cl \in UnsupportedSample \cup BadItemSample \cup RejectedSample}
    \cup {RruleLine("HOURLY", <<>>), RruleLine("FREQ", ClauseCount)}

\* the event the RRULE line belongs to: 1970/01/05 10:00 - 11:00
RruleEvent(repeat) ==
  Vevent(repeat, MinInterval_new(JanUtc(5, 10, 0), JanUtc(5, 11, 0)), <<>>)

\* the parser before an RRULE line, or an event without one
InitRrule ==
  /\ \/ lex_input \in RruleTextSample /\ par_pc = "rrules"
     \/ lex_input = <<>> /\ par_pc = "no_rrule"
  /\ lex_stream = lex_input
  /\ lex_out = <<>>
  /\ pb_buf = <<>>
  /\ pb_lexed = <<>>
  /\ pb_taken = <<>>
  /\ pb_prev = [op |-> "none"]
  /\ pb_last = [op |-> "none"]
  /\ par_locals = NewVeventLocals
  /\ par_ret = NoParRet
  /\ par_str = <<>>
  /\ par_acc = [freq |-> "none"]
  /\ par_rec = [ok |-> FALSE, panic |-> FALSE]
  /\ CalIdle
  /\ CoreIdle /\ RecIdle /\ NamesIdle

\* the state after rrules reached its loop, or returned before it
RrBegan(began) ==
  /\ ParBuffer(began.self)
  /\ IF began.ok
       THEN par_acc' = began.val /\ par_pc' = "rrules_loop"
            /\ par_ret' = par_ret
       ELSE ParReturn(began) /\ par_acc' = par_acc
  /\ UNCHANGED <<lex_input, lex_out, pb_taken, pb_prev, pb_last, par_locals,
                 par_str, par_rec, calVars>>

\* rrules: RRULE : FREQ = and the frequency
RrBegin == par_pc = "rrules" /\ RrBegan(rrules_begin(PbSelf))

\* the state after a turn of the loop of rrules
RrTurned(turn) ==
  /\ ParBuffer(turn.self)
  /\ IF turn.over
       THEN IF turn.p.ok
              THEN /\ par_pc' = "rrules_done"
                   /\ par_ret' = [ok |-> TRUE, panic |-> FALSE,
                                  val |-> turn.p.val]
                   /\ par_acc' = par_acc
              ELSE ParReturn(turn.p) /\ par_acc' = par_acc
       ELSE par_acc' = turn.acc /\ UNCHANGED <<par_pc, par_ret>>
  /\ UNCHANGED <<lex_input, lex_out, pb_taken, pb_prev, pb_last, par_locals,
                 par_str, par_rec, calVars>>

\* rrules: one turn of its loop
RrTurn ==
  /\ par_pc = "rrules_loop"
  /\ RrTurned(rrules_turn(ICSParser_peek0(PbSelf), par_acc))

\* recur of the event: Some(what rrules returned), None with no RRULE line
RruleRepeat == IF par_pc = "no_rrule" THEN None ELSE Some(par_ret.val)

\* Recurrence::from_ve(ve, tz) of the event, in the zone 0
RrFromVe ==
  /\ par_pc \in {"rrules_done", "no_rrule"}
  /\ par_rec' = Recurrence_from_ve(RruleEvent(RruleRepeat), 0)
  /\ par_pc' = "from_ve_done"
  /\ UNCHANGED <<lex_input, lex_stream, lex_out, pbVars, par_locals, par_ret,
                 par_str, par_acc, calVars>>

NextRrule ==
  /\ \/ RrBegin
     \/ RrTurn
     \/ RrFromVe
  /\ UNCHANGED <<coreVars, recVars, nameVars>>

SpecRrule == InitRrule /\ [][NextRrule]_vars

\* the text of the line holds word
TextHas(word) ==
  \E i \in 1..((Len(lex_input) - Len(word)) + 1) :
    SubSeq(lex_input, i, (i + Len(word)) - 1) = word

\* where word first stands in the line
TextAt(word) ==
  CHOOSE i \in 1..((Len(lex_input) - Len(word)) + 1) :
    /\ SubSeq(lex_input, i, (i + Len(word)) - 1) = word
    /\ \A j \in 1..(i - 1) : SubSeq(lex_input, j, (j + Len(word)) - 1) # word

HasCount == TextHas(<<";">> \o Kw("COUNT"))

HasUntil == TextHas(<<";">> \o Kw("UNTIL"))

\* from_ve has been called on the event of a line that rrules accepted
Converted == par_pc = "from_ve_done" /\ par_ret.ok

\* what the line gave for COUNT and UNTIL
ParsedCount == par_ret.val.count

ParsedUntil == par_ret.val.until

BothAppear ==
  /\ ~par_rec.ok /\ ~par_rec.panic
  /\ par_rec.err = UntilAndCountBothAppear(ParsedCount.val, ParsedUntil.val)

TermOf(rec) == rec.val.patt.term

HasUnsupported == \E t \in UNSUPPORTED_BY : TextHas((<<";">> \o Kw(t)) \o <<"=">>)

HasByday == TextHas((<<";">> \o Kw("BYDAY")) \o <<"=">>)

\* C22: an RRULE with a BYxxx rule other than BYDAY never yields a
\* Recurrence: the conversion of its event aborts, here by a panic, whether
\* the rule is alone or next to a BYDAY rule.
C22_UnsupportedAborts ==
  HasUnsupported =>
    /\ ~par_rec.ok
    /\ par_pc = "from_ve_done" => par_rec.panic

\* the event of a line with a BYDAY rule and then an unsupported rule was
\* converted, and the conversion panicked
C22_NextToBydayAborted ==
  /\ Converted /\ HasByday /\ TextHas(Clause("BYSETPOS", <<"1">>))
  /\ TextAt((<<";">> \o Kw("BYDAY")) \o <<"=">>) < TextAt(Clause("BYSETPOS", <<"1">>))
  /\ par_rec.panic

\* the line was refused: rrules returned an error or panicked, or from_ve
\* gave no Recurrence
Rejected ==
  \/ par_pc \in {"returned", "panicked"}
  \/ par_pc = "from_ve_done" /\ ~par_rec.ok

\* C23: every rejected input is reported as an error value and never as a
\* panic; an RRULE with an unsupported BYxxx rule, an unknown rule tag or a
\* BYDAY item that is no weekday makes loading return an ICSProcessError.
C23_RejectedIsTyped ==
  Rejected => (par_pc # "panicked" /\ ~par_rec.panic)
\* the word of a frequency rrules() returned
FreqWord(freq) ==
  CASE freq = "Daily" -> Kw("DAILY")
    [] freq = "Weekly" -> Kw("WEEKLY")
    [] freq = "Monthly" -> Kw("MONTHLY")
    [] freq = "Yearly" -> Kw("YEARLY")

RruleHead == ((Kw("RRULE") \o <<":">>) \o Kw("FREQ")) \o <<"=">>

\* the line with the word g in the place of its frequency
WithFreq(g) ==
  (RruleHead \o Kw(g))
    \o SubSeq(lex_input,
              (Len(RruleHead) + Len(FreqWord(par_ret.val.freq))) + 1,
              Len(lex_input))

\* Recurrence::from_ve of the event whose RRULE line is text
FromVeOfLine(rule) ==
  IF ~rule.ok THEN TryErr(rule.err)
  ELSE Recurrence_from_ve(RruleEvent(Some(rule.val)), 0)

FromVeOfText(text) == FromVeOfLine(ICSParser_rrules(PeekBuffer(<<>>, text, <<>>)))

\* the term with the instant of Until as the Date next() compares with
DatedTerm(term) ==
  IF term.kind = "Until" THEN Until(Date_from_min_instant(term.until).val)
  ELSE term

\* Recurrence::new(iv.to_dates(tz), tz, patt) for the interval of the event
RecOfPattern(patt) ==
  Recurrence_new(
    MinInterval_to_dates(RruleEvent(None).mi, 0, overflow_checks), 0,
    IF patt.kind = "Many" THEN Many(patt.dp, patt.iv, DatedTerm(patt.term))
    ELSE patt)

\* the occurrence after the first one
SecondOf(rec) == Recurrence_next(RecOfPattern(rec.patt), overflow_checks)

\* the start of the occurrence after the first one, when there is one
NextStart(rec) == MinInterval_from_dates(SecondOf(rec).val.date_iv).val.start

\* the frequency after freq in the round DAILY, WEEKLY, MONTHLY, YEARLY
FreqAfter(freq) ==
  CASE freq = "Daily" -> "WEEKLY"
    [] freq = "Weekly" -> "MONTHLY"
    [] freq = "Monthly" -> "YEARLY"
    [] freq = "Yearly" -> "DAILY"

-----------------------------------------------------------------------------
(* ICSParser::parse, turn by turn, on a calendar text; the parse of the     *)
(* same text with a piece put in between two of its lines may follow it.   *)

MaxItems == 2

LBeginCal == ((Kw("BEGIN") \o <<":">>) \o Kw("VCALENDAR")) \o <<"\n">>

LEndCal == ((Kw("END") \o <<":">>) \o Kw("VCALENDAR")) \o <<"\n">>

LBeginEv == ((Kw("BEGIN") \o <<":">>) \o Kw("VEVENT")) \o <<"\n">>

LEndEv == ((Kw("END") \o <<":">>) \o Kw("VEVENT")) \o <<"\n">>

\* SUMMARY:c and the TRANSP line that ends the summary
SummaryLines(c) ==
  ((Kw("SUMMARY") \o <<":", c, "\n">>) \o Kw("TRANSP")) \o <<":", "x", "\n">>

\* the lines of an event whose summary is c
EventLines(c) == <<LBeginEv, LineDtstart, LineDtend, SummaryLines(c), LEndEv>>

\* an event with no DTEND
BadEventLines == <<LBeginEv, LineDtstart, LEndEv>>

\* BEGIN:VT and END:VT around a line
OtherBlockLines ==
  <<Kw("BEGIN") \o <<":", "V", "T", "\n">>, <<"T", "Z", ":", "x", "\n">>,
    Kw("END") \o <<":", "V", "T", "\n">>>>

ItemPool == {EventLines("a"), EventLines("b"), BadEventLines, OtherBlockLines}

\* texts that are not BEGIN:VCALENDAR, items, END:VCALENDAR: no calendar
\* around an event, END with no colon, a text that ends after BEGIN
OddLinesSample ==
  {EventLines("a") \o <<LEndCal>>,
   <<LBeginCal, Kw("END") \o <<"\n">>, LEndCal>>,
   <<LBeginCal, Kw("BEGIN")>>,
   <<LBeginCal, LBeginEv, LineDtstart>>}

CalLinesSample ==
  {(<<LBeginCal>> \o Concat(items)) \o ending :
     items \in UNION {[1..n -> ItemPool] : n \in 0..MaxItems},
     ending \in {<<LEndCal>>, <<>>}}
    \cup OddLinesSample

\* an unrecognised property line, and an unrecognised nested block
InsertSample ==
  {LineOther,
   (Kw("BEGIN") \o <<":", "V", "A", "\n">>) \o (Kw("END") \o <<":", "V", "A", "\n">>)}

\* the text of lines with piece put in after the line pos
Inserted(lines, pos, piece) ==
  (Concat(SubSeq(lines, 1, pos)) \o piece)
    \o Concat(SubSeq(lines, pos + 1, Len(lines)))

InitCal ==
  /\ \E lines \in CalLinesSample :
       /\ lex_input = Concat(lines)
       /\ par_next \in {<<>>} \cup {Inserted(lines, pos, piece) :
                                     pos \in 1..(Len(lines) - 1),
                                     piece \in InsertSample}
  /\ lex_stream = lex_input
  /\ lex_out = <<>>
  /\ pb_buf = <<>>
  /\ pb_lexed = <<>>
  /\ pb_taken = <<>>
  /\ pb_prev = [op |-> "none"]
  /\ pb_last = [op |-> "none"]
  /\ par_pc = "parse"
  /\ par_locals = NewVeventLocals
  /\ par_ret = NoParRet
  /\ par_str = <<>>
  /\ par_acc = [freq |-> "none"]
  /\ par_rec = [ok |-> FALSE, panic |-> FALSE]
  /\ par_vevents = <<>>
  /\ par_cal = NoParRet
  /\ par_first = NoParRet
  /\ CoreIdle /\ RecIdle /\ NamesIdle

\* parse returns p
CalReturn(p) ==
  /\ par_pc' = IF p.panic THEN "parse_panicked" ELSE "parse_returned"
  /\ par_cal' = IF p.ok THEN [ok |-> TRUE, panic |-> FALSE, val |-> p.val]
                ELSE [ok |-> FALSE, panic |-> p.panic, err |-> p.err]

CalRest ==
  UNCHANGED <<lex_input, lex_out, pb_taken, pb_prev, pb_last, par_locals,
              par_ret, par_str, par_acc, par_rec, par_next, par_first>>

\* the state after the three munches that open parse
CalBegan(p) ==
  /\ ParBuffer(p.self)
  /\ IF p.ok THEN par_pc' = "parse_loop" /\ par_cal' = par_cal
     ELSE CalReturn(p)
  /\ par_vevents' = <<>>
  /\ CalRest

\* parse: let mut vevents = Vec::new() and the munches of BEGIN : VCALENDAR
CalBegin == par_pc = "parse" /\ CalBegan(parse_begin(PbSelf))

\* the state after a turn of the loop of parse
CalTurned(turn) ==
  /\ ParBuffer(turn.self)
  /\ CASE turn.kind = "over" -> CalReturn(turn.p)
       [] turn.kind = "more" -> UNCHANGED <<par_pc, par_cal>>
       [] turn.kind = "vevent" -> par_pc' = "vevent" /\ par_cal' = par_cal
  /\ par_vevents' = par_vevents
  /\ CalRest

\* parse: one turn of its loop, up to the call of vevent
CalTurn ==
  /\ par_pc = "parse_loop"
  /\ CalTurned(parse_turn(PbSelf, par_vevents))

\* parse: vevents.push(self.vevent()?) once vevent has returned
CalPush ==
  /\ par_pc \in {"returned", "panicked"}
  /\ IF par_ret.ok
       THEN /\ par_vevents' = Append(par_vevents, par_ret.val)
            /\ par_pc' = "parse_loop"
            /\ par_cal' = par_cal
       ELSE /\ par_vevents' = par_vevents
            /\ par_pc' = IF par_ret.panic THEN "parse_panicked"
                         ELSE "parse_returned"
            /\ par_cal' = par_ret
  /\ UNCHANGED <<lex_stream, pb_buf, pb_lexed>>
  /\ CalRest

\* a parser is made for the text that is to follow, and parse is called
CalAgain ==
  /\ par_pc \in {"parse_returned", "parse_panicked"}
  /\ par_next # <<>>
  /\ par_first' = par_cal
  /\ lex_input' = par_next
  /\ lex_stream' = par_next
  /\ pb_buf' = <<>>
  /\ pb_lexed' = <<>>
  /\ par_next' = <<>>
  /\ par_pc' = "parse"
  /\ par_vevents' = <<>>
  /\ par_cal' = NoParRet
  /\ par_locals' = NewVeventLocals
  /\ par_ret' = NoParRet
  /\ UNCHANGED <<lex_out, pb_taken, pb_prev, pb_last, par_str, par_acc,
                 par_rec>>

NextCal ==
  /\ \/ CalBegin
     \/ CalTurn
     \/ ParVeventBegin
     \/ ParVeventTurn
     \/ ParSummaryTurn
     \/ CalPush
     \/ CalAgain
  /\ UNCHANGED <<coreVars, recVars, nameVars>>

SpecCal == InitCal /\ [][NextCal]_vars

\* parse has returned
CalDone == par_pc \in {"parse_returned", "parse_panicked"}

\* the second parse has returned: the first was of the text without the
\* piece, this one is of the text with it
BothDone == CalDone /\ par_first # NoParRet

\* C24: content the parser does not recognise is skipped: an unrecognised
\* property line or an unrecognised nested block BEGIN:X ... END:X put in
\* between the properties of a VEVENT, or between events, leaves the parse
\* successful and its events those of the text without the piece.
C24_InsertedIsSkipped ==
  (BothDone /\ par_first.ok) => (par_cal.ok /\ par_cal.val = par_first.val)

\* the piece is inside a VEVENT: the last BEGIN:VEVENT before it has no
\* END:VEVENT between the two
InEvent(piece) ==
  /\ TextHas(piece)
  /\ \E i \in 1..(TextAt(piece) - 1) :
       /\ SubSeq(lex_input, i, (i + Len(LBeginEv)) - 1) = LBeginEv
       /\ \A j \in i..(TextAt(piece) - 1) :
            SubSeq(lex_input, j, (j + Len(LEndEv)) - 1) # LEndEv

NestedBlock ==
  (Kw("BEGIN") \o <<":", "V", "A", "\n">>) \o (Kw("END") \o <<":", "V", "A", "\n">>)

\* C24 for the pieces the parser does skip: a property line anywhere, and a
\* nested block between events
C24_SkippedOutsideEvents ==
  (BothDone /\ par_first.ok /\ ~InEvent(NestedBlock)) =>
    (par_cal.ok /\ par_cal.val = par_first.val)

\* every nested block inside a VEVENT makes the parse fail
C24_NestedBlockRefused ==
  (BothDone /\ par_first.ok /\ InEvent(NestedBlock)) =>
    (~par_cal.ok /\ par_cal.err[1] = "Other")

\* where word is in the text, in order
TextPlaces(word) ==
  SelectSeq([i \in 1..Len(lex_input) |-> i],
            LAMBDA i : /\ (i + Len(word)) - 1 <= Len(lex_input)
                       /\ SubSeq(lex_input, i, (i + Len(word)) - 1) = word)

WEndCal == (Kw("END") \o <<":">>) \o Kw("VCALENDAR")

WBeginCal == (Kw("BEGIN") \o <<":">>) \o Kw("VCALENDAR")

WSummary == Kw("SUMMARY") \o <<":">>

\* the summaries the text gives its events, in order: the letter after
\* SUMMARY: and the end of its line as Token::cast_as_string writes it
TextSummaries ==
  [k \in 1..Len(TextPlaces(WSummary)) |->
     <<lex_input[TextPlaces(WSummary)[k] + Len(WSummary)], "\\", "n">>]

\* the last call of vevent returned an error
VeventFailed == par_ret # NoParRet /\ ~par_ret.ok

\* the calendar parse returned
CalContent == par_cal.val.content

\* C26: parse succeeds only on a text that starts with BEGIN:VCALENDAR and
\* holds END:VCALENDAR; on success the calendar holds one Vevent per
\* BEGIN:VEVENT block, in the order of the text, and other blocks add
\* nothing; a text with no END:VCALENDAR gives the error EOF unless a VEVENT
\* failed before; the error of a VEVENT is the error of the parse.
C26_ParseStructure ==
  CalDone =>
    /\ par_cal.ok =>
         /\ Len(lex_input) >= Len(WBeginCal)
         /\ SubSeq(lex_input, 1, Len(WBeginCal)) = WBeginCal
         /\ TextHas(WEndCal)
         /\ Len(CalContent) = Len(TextPlaces(LBeginEv))
         /\ Len(CalContent) = Len(TextSummaries)
         /\ \A k \in 1..Len(CalContent) :
              /\ CalContent[k].summary = TextSummaries[k]
              /\ CalContent[k].mi
                   = MinInterval_new(JanUtc(5, 10, 0), JanUtc(5, 11, 0))
    /\ (~TextHas(WEndCal) /\ ~VeventFailed) =>
         (~par_cal.ok /\ ~par_cal.panic /\ par_cal.err = <<"EOF">>)
    /\ VeventFailed => par_cal = par_ret

\* C26 witness: a calendar of the events a and b with a block of another
\* kind put in between them was parsed into the two events
C26_TwoEventsAroundBlock ==
  /\ CalDone /\ par_cal.ok
  /\ TextHas(Kw("BEGIN") \o <<":", "V", "A", "\n">>)
  /\ Len(CalContent) = 2
  /\ CalContent[1].summary = <<"a", "\\", "n">>
  /\ CalContent[2].summary = <<"b", "\\", "n">>

\* C26 witness for the end of the input: the text of an event and no
\* END:VCALENDAR gave EOF after the event was parsed
C26_EndsBeforeEndCal ==
  /\ CalDone /\ ~TextHas(WEndCal) /\ par_ret.ok
  /\ par_cal.err = <<"EOF">>


-----------------------------------------------------------------------------
(* ICSParser::dt_possible_timezone on what follows DTSTART or DTEND: the   *)
(* colon or ;TZID=x: and a literal of a day of January 1970.               *)

\* the last day of January 1970 the literals name
MaxDtDay == 8

DtDays == 5..MaxDtDay

DtDigit(n) == <<"0", "1", "2", "3", "4", "5", "6", "7", "8", "9">>[n + 1]

\* hhmmss, or nothing for a literal with no time part
DtTimes ==
  {<<>>, <<"1", "0", "0", "0", "0", "0">>, <<"0", "9", "3", "0", "0", "0">>}

\* what follows the literal: the end of the input, or the end of the line
DtTails == {<<>>, <<"\n">>}

DtYmd(day) == <<"1", "9", "7", "0", "0", "1", "0", DtDigit(day)>>

DtText(zone, day, hms, z, tail) ==
  (((IF zone THEN (<<";">> \o Kw("TZID")) \o <<"=", "x", ":">> ELSE <<":">>)
      \o DtYmd(day))
     \o (IF hms = <<>> THEN <<>> ELSE <<"T">> \o hms))
    \o ((IF z THEN <<"Z">> ELSE <<>>) \o tail)

DtTextSample ==
  {DtText(zone, day, hms, z, tail) :
     zone \in BOOLEAN, day \in DtDays, hms \in DtTimes, z \in BOOLEAN,
     tail \in DtTails}

InitDt ==
  /\ lex_input \in DtTextSample
  /\ lex_stream = lex_input
  /\ lex_out = <<>>
  /\ pb_buf = <<>>
  /\ pb_lexed = <<>>
  /\ pb_taken = <<>>
  /\ pb_prev = [op |-> "none"]
  /\ pb_last = [op |-> "none"]
  /\ par_pc = "dt"
  /\ par_locals = NewVeventLocals
  /\ par_ret = NoParRet
  /\ par_str = <<>>
  /\ par_acc = [freq |-> "none"]
  /\ par_rec = [ok |-> FALSE, panic |-> FALSE]
  /\ CalIdle
  /\ CoreIdle /\ RecIdle /\ NamesIdle

DtReturned(p) ==
  /\ ParBuffer(p.self)
  /\ ParReturn(p)
  /\ UNCHANGED <<lex_input, lex_out, pb_taken, pb_prev, pb_last, par_locals,
                 par_str, par_acc, par_rec, calVars>>

\* self.dt_possible_timezone()
DtParse == par_pc = "dt" /\ DtReturned(ICSParser_dt_possible_timezone(PbSelf))

NextDt == DtParse /\ UNCHANGED <<coreVars, recVars, nameVars>>

SpecDt == InitDt /\ [][NextDt]_vars

\* dt_possible_timezone has returned
DtDone == par_pc \in {"returned", "panicked"}

\* the error of a munch that found another token than Z
DtMismatch ==
  /\ ~par_ret.ok /\ ~par_ret.panic
  /\ Len(par_ret.err) >= 6
  /\ SubSeq(par_ret.err, 1, 6)
       = (<<"Other", "Expected ">> \o Token_display(Other(<<"Z">>)))
           \o <<", found ">>

\* the next token of the parser is Z
DtNextIsZ ==
  ICSParser_peek0(PbSelf).ok /\ ICSParser_peek0(PbSelf).val = Other(<<"Z">>)

DtAccepted(day, hr, mn) == par_ret.ok /\ par_ret.val = JanUtc(day, hr, mn)

DtHour(hms) == IF hms[1] = "1" THEN 10 ELSE 9

DtMinute(hms) == IF hms[3] = "3" THEN 30 ELSE 0

\* what C25 says of the literal of DtText(zone, day, hms, z, tail)
DtAsClaimed(zone, day, hms, z) ==
  IF hms = <<>> THEN DtAccepted(day, 23, 59)
  ELSE IF zone
    THEN DtAccepted(day, DtHour(hms), DtMinute(hms)) /\ (z => DtNextIsZ)
  ELSE IF z
    THEN DtAccepted(day, DtHour(hms), DtMinute(hms)) /\ ~DtNextIsZ
  ELSE DtMismatch

\* C25 as stated: a literal with a time part and no TZID is accepted only
\* when a Z follows and gives a mismatch error otherwise, with a TZID no Z
\* is consumed, and a literal with no time part is accepted with 23:59.
C25_LiteralAsClaimed ==
  DtDone =>
    \A zone \in BOOLEAN, day \in DtDays, hms \in DtTimes, z \in BOOLEAN,
       tail \in DtTails :
      lex_input = DtText(zone, day, hms, z, tail)
        => DtAsClaimed(zone, day, hms, z)

\* the literal is the end of the input and a token is asked for after it
DtAtEnd(zone, hms, z, tail) ==
  tail = <<>> /\ ~z /\ (hms = <<>> \/ ~zone)

\* C25, amended: the same holds when a token follows the literal where one
\* is asked for; a literal that ends the input where the Z or the T is
\* looked for gives the error EOF.
C25_LiteralUnlessAtEnd ==
  DtDone =>
    \A zone \in BOOLEAN, day \in DtDays, hms \in DtTimes, z \in BOOLEAN,
       tail \in DtTails :
      lex_input = DtText(zone, day, hms, z, tail)
        => IF DtAtEnd(zone, hms, z, tail)
             THEN ~par_ret.ok /\ ~par_ret.panic /\ par_ret.err = <<"EOF">>
             ELSE DtAsClaimed(zone, day, hms, z)

\* C25 witness: a literal with a time part, no TZID and no Z before the end
\* of the line was refused with the mismatch error.
C25_NoZRefused ==
  /\ DtDone
  /\ lex_input = DtText(FALSE, 5, <<"1", "0", "0", "0", "0", "0">>, FALSE,
                        <<"\n">>)
  /\ DtMismatch


-----------------------------------------------------------------------------
(* calendar/mod.rs: NameMap<T>, a wrapper around HashMap<String, T>, and   *)
(* the impact of a task on a NameMap<Vec<Event>>                           *)

\* HashMap::insert
HashMap_insert(m, k, v) ==
  [x \in (DOMAIN m) \cup {k} |-> IF x = k THEN v ELSE m[x]]

\* HashMap::remove: the map that is left
HashMap_remove(m, k) == [x \in (DOMAIN m) \ {k} |-> m[x]]

KeyNotFound(key) == <<"KeyNotFound", key>>

DoubleInsert(key) == <<"DoubleInsert", key>>

NewnameUnavailable(key) == <<"NewnameUnavailable", key>>

\* what a call on the map leaves and returns
MapCalled(self, ret) == [self |-> self, ret |-> ret]

NameMap_contains(self, key) == key \in DOMAIN self

NameMap_unique_insert(self, key, val) ==
  IF NameMap_contains(self, key) THEN MapCalled(self, Err(DoubleInsert(key)))
  ELSE MapCalled(HashMap_insert(self, key, val), Ok("unit"))

\* rename after self.contents.remove(old_key) gave Some(v)
rename_removed(removed, new_key, v) ==
  IF NameMap_contains(removed, new_key)
    THEN MapCalled(removed, Err(NewnameUnavailable(new_key)))
  ELSE MapCalled(HashMap_insert(removed, new_key, v), Ok("unit"))

NameMap_rename(self, old_key, new_key) ==
  IF NameMap_contains(self, old_key)
    THEN rename_removed(HashMap_remove(self, old_key), new_key, self[old_key])
  ELSE MapCalled(self, Err(KeyNotFound(new_key)))

\* Event(pub String, pub Recurrence)
Event(name, rec) == <<name, rec>>

\* what overlap() gives: a panic, or the sum
OverlapPanic == [panic |-> TRUE, val |-> 0]

Overlap(ret) == [panic |-> FALSE, val |-> ret]

\* Recurrence::overlap, the loop 'a over the RecIter it
RECURSIVE overlap_loop(_, _, _, _)
overlap_added(nx, sum, miv, oc) ==
  IF ~sum.some THEN OverlapPanic ELSE overlap_loop(nx, miv, sum.val, oc)

overlap_turn(nx, rec_miv, miv, ret, oc) ==
  IF overlap_skips(rec_miv, miv, oc) THEN overlap_loop(nx, miv, ret, oc)
  ELSE IF overlap_breaks(rec_miv, miv, oc) THEN Overlap(ret)
  ELSE overlap_added(nx, overlap_add(ret, rec_miv, miv, oc), miv, oc)

overlap_yield(it, nx, miv, ret, oc) ==
  IF nx.panic \/ ~MinInterval_from_dates(it.val.date_iv).ok THEN OverlapPanic
  ELSE overlap_turn(nx, MinInterval_from_dates(it.val.date_iv).val, miv, ret,
                    oc)

overlap_loop(it, miv, ret, oc) ==
  IF ~it.some THEN Overlap(ret)
  ELSE overlap_yield(it, Recurrence_next(it.val, oc), miv, ret, oc)

Recurrence_overlap(self, miv, oc) == overlap_loop(NextSome(self), miv, 0, oc)

\* for event in event_vec { ret = ret.checked_add(..).expect("Overflowed") }
RECURSIVE overlap_miv_vec(_, _, _, _)
overlap_miv_event(event_vec, miv, ret, ov, oc) ==
  IF ov.panic \/ ~u32_checked_add(ret, ov.val).some THEN OverlapPanic
  ELSE overlap_miv_vec(Tail(event_vec), miv, ret + ov.val, oc)

overlap_miv_vec(event_vec, miv, ret, oc) ==
  IF event_vec = <<>> THEN Overlap(ret)
  ELSE overlap_miv_event(event_vec, miv, ret,
                         Recurrence_overlap(Head(event_vec)[2], miv, oc), oc)

\* for event_vec in self.contents.values(): the sum does not depend on the
\* order the HashMap gives them in
RECURSIVE overlap_miv_values(_, _, _, _, _)
overlap_miv_value(self, keys, miv, done, oc) ==
  IF done.panic THEN done
  ELSE overlap_miv_values(self, keys, miv, done.val, oc)

overlap_miv_values(self, keys, miv, ret, oc) ==
  IF keys = {} THEN Overlap(ret)
  ELSE overlap_miv_value(self, keys \ {CHOOSE k \in keys : TRUE}, miv,
         overlap_miv_vec(self[CHOOSE k \in keys : TRUE], miv, ret, oc), oc)

NameMap_overlap_miv(self, miv, oc) ==
  overlap_miv_values(self, DOMAIN self, miv, 0, oc)

\* Task { due, length, completion }
Task(due, length, completion) ==
  [due |-> due, length |-> length, completion |-> completion]

\* Workload::multiply_percent, p the raw value of the Percent
Workload_multiply_percent(self, p) ==
  ((self * p) \div 100) + (IF (self * p) % 100 >= 50 THEN 1 ELSE 0)

\* Task::get_remaining_workload, the completion being at most 100
Task_get_remaining_workload(self) ==
  Workload_multiply_percent(self.length, 100 - self.completion)

\* what impact gives: a panic, or the Percent
ImpactPanic == [panic |-> TRUE, val |-> 0]

\* (100.0 * value).round() of value = needed / available, available > 0
percent_rounded(needed, available) ==
  ((100 * needed) \div available)
    + (IF (100 * needed) % available >= available - ((100 * needed) % available)
         THEN 1 ELSE 0)

\* Percent::try_from((needed_time as f32) / (available_time as f32))
\* .expect("impact overflowed"): 0 / 0 is NaN and gives Percent(0), n / 0 is
\* infinite and is refused
impact_percent(needed, available) ==
  IF available = 0
    THEN IF needed = 0 THEN [panic |-> FALSE, val |-> 0] ELSE ImpactPanic
  ELSE IF percent_rounded(needed, available) > U16_MAX THEN ImpactPanic
  ELSE [panic |-> FALSE, val |-> percent_rounded(needed, available)]

\* the locals of impact and what it returns
Impact(miv, total, occupied, available, ret) ==
  [miv |-> miv, total |-> total, occupied |-> occupied,
   available |-> available, ret |-> ret]

\* let available_time = total_time - occupied_time, and the rest
impact_available(todo, miv, total, occupied, available, oc) ==
  Impact(miv, total, occupied, available,
         IF occupied.panic \/ (available.overflow /\ oc) THEN ImpactPanic
         ELSE impact_percent(Task_get_remaining_workload(todo),
                             available.val))

\* let occupied_time = self.overlap_miv(miv)
impact_occupied(todo, miv, total, occupied, oc) ==
  impact_available(todo, miv, total, occupied,
                   u32_sub(total.val, occupied.val), oc)

\* let total_time = miv.num_min()
impact_total(self, todo, miv, total, oc) ==
  IF total.panic
    THEN Impact(miv, total, Overlap(0), u32_sub(0, 0), ImpactPanic)
  ELSE impact_occupied(todo, miv, total, NameMap_overlap_miv(self, miv, oc),
                       oc)

\* let miv = MinInterval::from_now_till(todo.due), t the system clock
impact_miv(self, todo, miv, oc) ==
  IF miv.panic
    THEN Impact(miv.val, Computed(0, FALSE, oc), Overlap(0), u32_sub(0, 0),
                ImpactPanic)
  ELSE impact_total(self, todo, miv.val, MinInterval_num_min(miv.val, oc), oc)

\* NameMap<Vec<Event>>::impact
NameMap_impact(self, todo, t, oc) ==
  impact_miv(self, todo, MinInterval_from_now_till(todo.due, t, oc), oc)

-----------------------------------------------------------------------------
(* A NameMap<Vec<Event>> made by mk_empty(), then filled, renamed and       *)
(* asked for the impact of a task                                           *)

\* how many names the callers use
MaxNames == 2

NameOrder == <<"a", "b", "c", "d", "e">>

Names == {NameOrder[i] : i \in 1..MaxNames}

\* an event of Monday 5 January 1970 in utc
OnceEvent(name, h1, m1, h2, m2) ==
  Event(name,
        Recurrence_new(<<RecDate(5, h1, m1, ZoneOffset_utc),
                         RecDate(5, h2, m2, ZoneOffset_utc)>>,
                       ZoneOffset_utc, Once))

EventVecSample ==
  {<<OnceEvent("x", 10, 0, 11, 0)>>,
   <<OnceEvent("y", 10, 30, 11, 30)>>,
   <<OnceEvent("x", 10, 0, 11, 0), OnceEvent("z", 12, 0, 12, 30)>>}

\* the system clock: 5 January 1970 at 09:00, 10:00 and 12:00
ClockSample == {5760 + 540, 5760 + 600, 5760 + 720}

TaskSample ==
  {Task(JanUtc(5, hr, mn), length, 50) :
     hr \in {11}, mn \in {0, 30}, length \in {0, 45}}

InitNames ==
  /\ nm_map = <<>>
  /\ nm_res = [op |-> "none"]
  /\ DateIdle /\ RangedIdle /\ ZoneIdle
  /\ overflow_checks \in BOOLEAN
  /\ inst_a = EpochInstant /\ inst_b = EpochInstant /\ inst_res = NoInstRes
  /\ miv_a = NoInterval /\ miv_b = NoInterval /\ miv_res = NoMivRes
  /\ RecIdle /\ IcsIdle

\* the map becomes c.self and the call is recorded
NmCalled(op, args, c) ==
  /\ nm_map' = c.self
  /\ nm_res' = [op |-> op, args |-> args, before |-> nm_map, ret |-> c.ret]

\* names.unique_insert(key, val)
NmUniqueInsert ==
  \E key \in Names, val \in EventVecSample :
    NmCalled("unique_insert", <<key, val>>,
             NameMap_unique_insert(nm_map, key, val))

\* names.rename(old_key, new_key)
NmRename ==
  \E old_key \in Names, new_key \in Names :
    NmCalled("rename", <<old_key, new_key>>,
             NameMap_rename(nm_map, old_key, new_key))

\* names.impact(&todo), the clock being at t
NmImpact ==
  \E todo \in TaskSample, t \in ClockSample :
    /\ nm_map' = nm_map
    /\ nm_res' = [op |-> "impact", args |-> <<todo, t>>, before |-> nm_map,
                  ret |-> NameMap_impact(nm_map, todo, t, overflow_checks)]

NextNames ==
  /\ \/ NmUniqueInsert
     \/ NmRename
     \/ NmImpact
  /\ UNCHANGED <<coreVars, recVars, icsVars>>

SpecNames == InitNames /\ [][NextNames]_vars

\* the last call was op and returned the error kind
NmFailed(op, kind) ==
  nm_res.op = op /\ ~nm_res.ret.ok /\ nm_res.ret.err[1] = kind

\* C29: a NameMap call that returns an error leaves the map unchanged: a
\* rename that fails with NewnameUnavailable or KeyNotFound keeps every key
\* and value, the entry under the old name included, and a unique_insert
\* that fails with DoubleInsert keeps the value; a rename that succeeds
\* moves the value from the old name to the new one and changes nothing
\* else.
C29_ErrorsLeaveMapUnchanged ==
  /\ (nm_res.op \in {"rename", "unique_insert"} /\ ~nm_res.ret.ok) =>
       nm_map = nm_res.before
  /\ (nm_res.op = "rename" /\ nm_res.ret.ok) =>
       /\ nm_res.args[1] \in DOMAIN nm_res.before
       /\ nm_map = HashMap_insert(HashMap_remove(nm_res.before, nm_res.args[1]),
                                  nm_res.args[2], nm_res.before[nm_res.args[1]])

\* C29 without the rename to a name that is taken: a failed unique_insert
\* and a rename of a name that is absent leave the map as it was, and a
\* rename that succeeds moves the value
C29_OtherCallsAsClaimed ==
  /\ (NmFailed("unique_insert", "DoubleInsert")
        \/ NmFailed("rename", "KeyNotFound")) =>
       nm_map = nm_res.before
  /\ (nm_res.op = "rename" /\ nm_res.ret.ok) =>
       /\ nm_res.args[1] \in DOMAIN nm_res.before
       /\ nm_map = HashMap_insert(HashMap_remove(nm_res.before, nm_res.args[1]),
                                  nm_res.args[2], nm_res.before[nm_res.args[1]])

\* a rename to a name that is taken loses the entry under the old name
C29_FailedRenameDrops ==
  NmFailed("rename", "NewnameUnavailable") =>
    /\ nm_res.args[1] \in DOMAIN nm_res.before
    /\ nm_res.args[1] \notin DOMAIN nm_map
    /\ nm_map = HashMap_remove(nm_res.before, nm_res.args[1])

\* impact went as far as the subtraction
ImpactSubtracted ==
  nm_res.op = "impact" /\ ~nm_res.ret.total.panic /\ ~nm_res.ret.occupied.panic

\* C30: in impact the occupied time overlap_miv returns for the window from
\* now to the due instant never exceeds the total minutes of the window,
\* the total is computed without underflow, also when the due instant is
\* past, and so total_time - occupied_time never underflows.
C30_AvailableNeverUnderflows ==
  nm_res.op = "impact" =>
    /\ ~nm_res.ret.total.overflow
    /\ ImpactSubtracted =>
         /\ nm_res.ret.occupied.val <= nm_res.ret.total.val
         /\ ~nm_res.ret.available.overflow

\* with the window not reversed, the total is right, and one event vector
\* whose events do not overlap each other never occupies more than it
C30_TotalOfForwardWindow ==
  (nm_res.op = "impact"
     /\ nm_res.args[2] <= nm_res.args[1].due.raw) =>
    /\ ~nm_res.ret.total.overflow
    /\ nm_res.ret.total.val = nm_res.args[1].due.raw - nm_res.args[2]
    /\ Cardinality(DOMAIN nm_res.before) <= 1 =>
         nm_res.ret.occupied.val <= nm_res.ret.total.val

=============================================================================
